---------------------------- MODULE Spec2Model ----------------------------
(***************************************************************************)
(* A model of go-hermes: the notification bus (internal/pubsub), the       *)
(* sharded store (DB), its TTL reaper and the transaction layer.           *)
(*                                                                         *)
(* One set of variables describes the whole program.  Each subsystem has   *)
(* its own specification (SpecBus, SpecRename, ...), which runs the        *)
(* operations of that subsystem and leaves the other variables alone.      *)
(***************************************************************************)
EXTENDS Integers, Sequences, FiniteSets, TLC

(***************************************************************************)
(* Bounds of the model.                                                    *)
(***************************************************************************)
\* channels the bus may create in one run
MaxSinks == 2
\* Config.BufferSize of the bus under test (the capacity of every sink)
BufSize == 1
\* calls of Publish in one run
MaxPublish == 3

\* Config.ShardCount of the store under test
ShardCount == 2
\* the last instant of the clock
MaxTime == 3
\* goroutines running concurrently
Workers == 2
\* calls each goroutine makes in a run
Iterations == 3

Topics == {"t", "u"}
Sinks == 1..MaxSinks
Keys == {"a", "b", "c", "e", "g"}
Procs == 1..Workers

VARIABLES
    \* ---- internal/pubsub: PubSub ----
    subscribers,   \* ps.subscribers: topic -> set of channels (a map: its DOMAIN varies)
    chanBuf,       \* the buffered content of every channel made so far
    closes,        \* how many times close(ch) ran on each channel
    nextCh,        \* the next channel make() returns
    panicked,      \* "none", or the runtime panic that ended the program
    \* ---- observers of the bus (not program state) ----
    offered,       \* per channel: the messages Publish tried to send to it, in order
    consumed,      \* per channel: whether a consumer has read from it
    npub,          \* how many Publish calls ran
    \* ---- DB ----
    data,          \* the shards' maps: data[k] is shards[getShardIndex(k)].data[k], or NoEntry
    mu,            \* per shard: the state of its sync.RWMutex
    now,           \* time.Now(), in seconds
    \* ---- goroutines ----
    pc,            \* per goroutine: where it is in the call it runs
    loc,           \* per goroutine: the arguments and locals of that call, and its result
    hist,          \* per goroutine: the results of the calls it has completed (an observer)
    \* ---- the reaper goroutine (cleanupExpiredKeys) ----
    reaper,        \* where it is: waiting for a tick, or at a shard of its pass
    \* ---- one client and a transaction ----
    tx,            \* Transaction{commands, rollback, active}, and whether it was made
    last,          \* the last call of the client and its result (an observer)
    pre            \* what the run of the transaction looked like so far (an observer)

busVars == <<subscribers, chanBuf, closes, nextCh, panicked, offered, consumed, npub>>
storeVars == <<data, mu, now>>
procVars == <<pc, loc, hist>>
reaperVars == <<reaper>>
txVars == <<tx, last, pre>>
notBus == <<storeVars, procVars, reaperVars, txVars>>

vars == <<subscribers, chanBuf, closes, nextCh, panicked, offered, consumed, npub,
          data, mu, now, pc, loc, hist, reaper, tx, last, pre>>

(***************************************************************************)
(* internal/pubsub/pubsub.go                                               *)
(***************************************************************************)
NoPanic == "none"
CloseOfClosed == "close of closed channel"
SendOnClosed == "send on closed channel"

\* NewPubSub: an empty topic table; no channel exists yet.
NewPubSub ==
    /\ subscribers = << >>
    /\ chanBuf = [s \in Sinks |-> << >>]
    /\ closes = [s \in Sinks |-> 0]
    /\ nextCh = 1
    /\ panicked = NoPanic
    /\ offered = [s \in Sinks |-> << >>]
    /\ consumed = [s \in Sinks |-> FALSE]
    /\ npub = 0

\* A map with key k removed / set.
MapDelete(m, k) == [x \in (DOMAIN m) \ {k} |-> m[x]]
MapPut(m, k, v) == [x \in (DOMAIN m) \cup {k} |-> IF x = k THEN v ELSE m[x]]

\* select { case ch <- message: default: } on a ring-buffer variant: the oldest
\* message is overwritten when the buffer is full.
TrySendDropOldest(buf, msg) ==
    IF Len(buf) < BufSize THEN Append(buf, msg) ELSE Append(Tail(buf), msg)

\* select { case ch <- message: default: }: the message is queued when the
\* channel has room and dropped otherwise.
TrySend(buf, msg) ==
    IF Len(buf) < BufSize THEN Append(buf, msg) ELSE buf

\* close(ch) closes an open channel and panics on a closed one.
CloseAll(cs) ==
    /\ closes' = [s \in Sinks |-> IF s \in cs THEN closes[s] + 1 ELSE closes[s]]
    /\ panicked' = IF \E s \in cs : closes[s] > 0 THEN CloseOfClosed ELSE NoPanic

\* Subscribe(key): a fresh channel, registered under key.
Subscribe(key) ==
    /\ panicked = NoPanic
    /\ nextCh <= MaxSinks
    /\ subscribers' = MapPut(subscribers, key,
                             (IF key \in DOMAIN subscribers THEN subscribers[key] ELSE {})
                                \cup {nextCh})
    /\ nextCh' = nextCh + 1
    /\ UNCHANGED <<chanBuf, closes, panicked, offered, consumed, npub>>
    /\ UNCHANGED notBus

\* ListSubscribers(): the topics of the table.
ListSubscribers == DOMAIN subscribers

\* An Unsubscribe that leaves a topic with no channel in the table.
UnsubscribeKeepsTopic(key, ch) ==
    /\ panicked = NoPanic
    /\ ch < nextCh
    /\ subscribers' =
          IF key \in DOMAIN subscribers /\ ch \in subscribers[key]
          THEN MapPut(subscribers, key, subscribers[key] \ {ch})
          ELSE subscribers
    /\ CloseAll({ch})
    /\ UNCHANGED <<chanBuf, nextCh, offered, consumed, npub>>
    /\ UNCHANGED notBus

\* Unsubscribe(key, ch): de-registers ch from key when it is there, drops the
\* topic when it has no channel left, and closes ch in every case.
Unsubscribe(key, ch) ==
    /\ panicked = NoPanic
    /\ ch < nextCh
    /\ subscribers' =
          IF key \in DOMAIN subscribers /\ ch \in subscribers[key]
          THEN IF subscribers[key] \ {ch} = {}
               THEN MapDelete(subscribers, key)
               ELSE MapPut(subscribers, key, subscribers[key] \ {ch})
          ELSE subscribers
    /\ CloseAll({ch})
    /\ UNCHANGED <<chanBuf, nextCh, offered, consumed, npub>>
    /\ UNCHANGED notBus

\* Publish(key, message): a non-blocking send to every channel of the topic.
\* A send on a closed channel panics; the channels visited before it have the
\* message already (the iteration order of a Go map is not defined).
Publish(key, message) ==
    /\ panicked = NoPanic
    /\ npub < MaxPublish
    /\ npub' = npub + 1
    /\ IF key \notin DOMAIN subscribers
       THEN UNCHANGED <<chanBuf, offered, panicked>>
       ELSE LET subs == subscribers[key]
                shut == {s \in subs : closes[s] > 0}
            IN  \E visited \in SUBSET (subs \ shut) :
                  /\ shut = {} => visited = subs
                  /\ chanBuf' = [s \in Sinks |->
                        IF s \in visited THEN TrySend(chanBuf[s], message) ELSE chanBuf[s]]
                  /\ offered' = [s \in Sinks |->
                        IF s \in visited THEN Append(offered[s], message) ELSE offered[s]]
                  /\ panicked' = IF shut = {} THEN NoPanic ELSE SendOnClosed
    /\ UNCHANGED <<subscribers, closes, nextCh, consumed>>
    /\ UNCHANGED notBus

\* UnsubscribeAllForKey(key): removes the topic and closes each of its channels.
UnsubscribeAllForKey(key) ==
    /\ panicked = NoPanic
    /\ IF key \in DOMAIN subscribers
       THEN /\ subscribers' = MapDelete(subscribers, key)
            /\ CloseAll(subscribers[key])
       ELSE UNCHANGED <<subscribers, closes, panicked>>
    /\ UNCHANGED <<chanBuf, nextCh, offered, consumed, npub>>
    /\ UNCHANGED notBus

\* Close(): swaps the table for an empty one and closes every channel of the old one.
PubSubClose ==
    /\ panicked = NoPanic
    /\ subscribers' = << >>
    /\ CloseAll(UNION {subscribers[k] : k \in DOMAIN subscribers})
    /\ UNCHANGED <<chanBuf, nextCh, offered, consumed, npub>>
    /\ UNCHANGED notBus

\* A consumer reads one message from the channel it holds.
Receive(ch) ==
    /\ panicked = NoPanic
    /\ ch < nextCh
    /\ chanBuf[ch] # << >>
    /\ chanBuf' = [chanBuf EXCEPT ![ch] = Tail(@)]
    /\ consumed' = [consumed EXCEPT ![ch] = TRUE]
    /\ UNCHANGED <<subscribers, closes, nextCh, panicked, offered, npub>>
    /\ UNCHANGED notBus

(***************************************************************************)
(* The store: entries, shards, hashing, expiration.                        *)
(***************************************************************************)
\* interface{} values carry their dynamic type: int64 n, the string "s<n>",
\* a []interface{} with elements xs, a map[string]interface{} given as its
\* set h of <<field, value>> pairs.
Val(t, v, xs, h) == [v |-> v, t |-> t, xs |-> xs, h |-> h]
I64(n) == Val("int64", n, << >>, {})
Str(n) == Val("string", n, << >>, {})
Nil == Val("nil", 0, << >>, {})
ListOf(xs) == Val("list", 0, xs, {})
HashOf(h) == Val("hash", 0, << >>, h)
\* values the calls return: an int, a DataType, a []string (as the set of its
\* elements: its order is the order of Go's map iteration)
GoInt(n) == Val("int", n, << >>, {})
Kind(type) == Val(type, 0, << >>, {})
KeyList(ks) == Val("keys", 0, << >>, {<<k, 0>> : k \in ks})

\* DataType
String == "String"
List == "List"
Hash == "Hash"

\* Entry{Value, Type, Expiration}; Expiration 0 is the zero time.Time.
Entry(value, type, expiration) ==
    [Value |-> value, Type |-> type, Expiration |-> expiration]
\* a key with no slot in its shard's map
NoEntry == [Value |-> Nil, Type |-> "none", Expiration |-> 0]

ShardIds == 0..(ShardCount - 1)
Unlocked == [w |-> 0, r |-> {}]
NoLocals == [op |-> "none"]

\* The UTF-8 bytes of the keys in use.
KeyBytes == [a |-> <<97>>, b |-> <<98>>, c |-> <<99>>, e |-> <<101>>, g |-> <<103>>]

\* Bitwise exclusive or of two naturals.
RECURSIVE Xor(_, _)
Xor(x, y) ==
    IF x = 0 THEN y
    ELSE IF y = 0 THEN x
    ELSE (((x % 2) + (y % 2)) % 2) + 2 * Xor(x \div 2, y \div 2)

\* hash/fnv New32a: one step (h ^= byte; h *= 16777619 mod 2^32) on a 32-bit
\* hash kept as two 16-bit halves <<hi, lo>>; 16777619 = 2^24 + 403.
FnvStep(h, byte) ==
    LET lo == Xor(h[2], byte)
        hi == h[1]
        plo == lo * 403
    IN  << ((hi * 403) + (plo \div 65536) + ((lo % 256) * 256)) % 65536, plo % 65536 >>

RECURSIVE Fnv32a(_, _)
Fnv32a(h, bytes) ==
    IF bytes = << >> THEN h ELSE Fnv32a(FnvStep(h, Head(bytes)), Tail(bytes))

\* offset basis 2166136261 = 0x811c9dc5
FnvOffsetHi == 33052
FnvOffsetLo == 40389

\* getShardIndex(key) = fnv32a(key) mod len(db.shards)
getShardIndex(key) ==
    LET h == Fnv32a(<<FnvOffsetHi, FnvOffsetLo>>, KeyBytes[key])
    IN  (((h[1] % ShardCount) * (65536 % ShardCount)) + (h[2] % ShardCount)) % ShardCount

\* the shard index of every key, computed once
ShardOf == [k \in Keys |-> getShardIndex(k)]

\* ttlSecondsToTime for ttl >= 0 at instant t
ttlSecondsToTime(t, ttl) == IF ttl = 0 THEN 0 ELSE t + ttl

\* An isExpired for which no entry ever expires.
isExpiredNever(e, t) == FALSE

\* isExpired(e) at instant t
isExpired(e, t) == e.Expiration # 0 /\ t > e.Expiration

exists(d, key) == d[key] # NoEntry

\* sync.RWMutex; a Lock that never waits is the broken variant.
CanLockAlways(m) == TRUE
CanLock(m) == m.w = 0 /\ m.r = {}
CanRLock(m) == m.w = 0

\* The effect of PubSub.Publish(key, message) on the channels, when no
\* registered channel is closed.
Deliver(bufs, key, message) ==
    [s \in Sinks |->
        IF key \in DOMAIN subscribers /\ s \in subscribers[key]
        THEN IF Len(bufs[s]) < BufSize THEN Append(bufs[s], message) ELSE bufs[s]
        ELSE bufs[s]]

(***************************************************************************)
(* The store's operations as functions of the shard maps d at instant t:   *)
(* what one call does under its shard lock.  ctxDone says whether the      *)
(* call's context is cancelled.  The result holds the maps afterwards, the *)
(* value and error returned, and the messages published, in order.         *)
(***************************************************************************)
ErrNone == "nil"
ErrKeyNotFound == "ErrKeyNotFound"
ErrKeyExpired == "ErrKeyExpired"
ErrKeyExists == "ErrKeyExists"
ErrInvalidKey == "ErrInvalidKey"
ErrInvalidTTL == "ErrInvalidTTL"
ErrInvalidValueType == "ErrInvalidValueType"
ErrInvalidType == "ErrInvalidType"
ErrEmptyList == "ErrEmptyList"
ErrEmptyValues == "ErrEmptyValues"
ErrValueMismatch == "ErrValueMismatch"
ErrContextCanceled == "ErrContextCanceled"
ErrTransactionNotActive == "ErrTransactionNotActive"
ErrTransactionFailed == "ErrTransactionFailed"

Res(d, ret, err, pub) == [d |-> d, ret |-> ret, err |-> err, pub |-> pub]
Fail(d, err) == Res(d, Nil, err, << >>)
Bool(b) == Val("bool", IF b THEN 1 ELSE 0, << >>, {})

\* A setInternal that publishes before it tests its gates.
setInternalPublishesFirst(ctxDone, d, t, key, value, ttl, ifExists, ifNotExists) ==
    IF ctxDone THEN Res(d, Bool(FALSE), ErrContextCanceled, << >>)
    ELSE IF key = "" THEN Res(d, Bool(FALSE), ErrInvalidKey, << >>)
    ELSE IF ttl < 0 THEN Res(d, Bool(FALSE), ErrInvalidTTL, << >>)
    ELSE IF ifExists /\ ~exists(d, key)
    THEN Res(d, Bool(FALSE), ErrKeyNotFound, << <<key, <<"SET: ", value>> >> >>)
    ELSE IF ifNotExists /\ exists(d, key)
    THEN Res(d, Bool(FALSE), ErrKeyExists, << <<key, <<"SET: ", value>> >> >>)
    ELSE Res([d EXCEPT ![key] = Entry(value, String, ttlSecondsToTime(t, ttl))],
             Bool(TRUE), ErrNone, << <<key, <<"SET: ", value>> >> >>)

setInternal(ctxDone, d, t, key, value, ttl, ifExists, ifNotExists) ==
    IF ctxDone THEN Res(d, Bool(FALSE), ErrContextCanceled, << >>)
    ELSE IF key = "" THEN Res(d, Bool(FALSE), ErrInvalidKey, << >>)
    ELSE IF ttl < 0 THEN Res(d, Bool(FALSE), ErrInvalidTTL, << >>)
    ELSE IF ifExists /\ ~exists(d, key) THEN Res(d, Bool(FALSE), ErrKeyNotFound, << >>)
    ELSE IF ifNotExists /\ exists(d, key) THEN Res(d, Bool(FALSE), ErrKeyExists, << >>)
    ELSE Res([d EXCEPT ![key] = Entry(value, String, ttlSecondsToTime(t, ttl))],
             Bool(TRUE), ErrNone, << <<key, <<"SET: ", value>> >> >>)

Set(ctxDone, d, t, key, value, ttl) ==
    setInternal(ctxDone, d, t, key, value, ttl, FALSE, FALSE)
SetNX(ctxDone, d, t, key, value, ttl) ==
    setInternal(ctxDone, d, t, key, value, ttl, FALSE, TRUE)
SetXX(ctxDone, d, t, key, value, ttl) ==
    setInternal(ctxDone, d, t, key, value, ttl, TRUE, FALSE)

\* Get, with no other call between its read and its lazy delete.
Get(ctxDone, d, t, key) ==
    IF ctxDone THEN Fail(d, ErrContextCanceled)
    ELSE IF ~exists(d, key) THEN Fail(d, ErrKeyNotFound)
    ELSE IF isExpired(d[key], t) THEN Fail([d EXCEPT ![key] = NoEntry], ErrKeyExpired)
    ELSE Res(d, d[key].Value, ErrNone, << >>)

SetCAS(ctxDone, d, t, key, oldValue, newValue, ttl) ==
    IF ctxDone THEN Fail(d, ErrContextCanceled)
    ELSE IF ttl < 0 THEN Fail(d, ErrInvalidTTL)
    ELSE IF ~exists(d, key) THEN Fail(d, ErrKeyNotFound)
    ELSE IF isExpired(d[key], t) THEN Fail([d EXCEPT ![key] = NoEntry], ErrKeyNotFound)
    ELSE IF d[key].Value # oldValue THEN Fail(d, ErrValueMismatch)
    ELSE Res([d EXCEPT ![key] = Entry(newValue, d[key].Type, ttlSecondsToTime(t, ttl))],
             Nil, ErrNone, << <<key, <<"CAS: ", oldValue, newValue>> >> >>)

\* Incr: a missing or expired key becomes 1; an int64 is incremented in place
\* (kind and expiration kept); anything else is ErrInvalidValueType.
Incr(ctxDone, d, t, key) ==
    IF ctxDone THEN Fail(d, ErrContextCanceled)
    ELSE IF ~exists(d, key) \/ isExpired(d[key], t)
    THEN Res([d EXCEPT ![key] = Entry(I64(1), String, 0)], I64(1), ErrNone, << >>)
    ELSE IF d[key].Value.t # "int64" THEN Fail(d, ErrInvalidValueType)
    ELSE Res([d EXCEPT ![key].Value = I64(d[key].Value.v + 1)],
             I64(d[key].Value.v + 1), ErrNone, << >>)

\* A Delete that does not look at its context.
DeleteIgnoresContext(ctxDone, d, t, key) ==
    IF ~exists(d, key) THEN Fail(d, ErrKeyNotFound)
    ELSE Res([d EXCEPT ![key] = NoEntry], Nil, ErrNone, << <<key, <<"DELETE">> >> >>)

Delete(ctxDone, d, t, key) ==
    IF ctxDone THEN Fail(d, ErrContextCanceled)
    ELSE IF ~exists(d, key) THEN Fail(d, ErrKeyNotFound)
    ELSE Res([d EXCEPT ![key] = NoEntry], Nil, ErrNone, << <<key, <<"DELETE">> >> >>)

\* An LPop that leaves the emptied list under its key.
LPopKeepsKey(ctxDone, d, t, key) ==
    IF ctxDone THEN Fail(d, ErrContextCanceled)
    ELSE IF ~exists(d, key) \/ isExpired(d[key], t) THEN Fail(d, ErrKeyNotFound)
    ELSE IF d[key].Type # "List" THEN Fail(d, ErrInvalidType)
    ELSE IF d[key].Value.xs = << >> THEN Fail(d, ErrEmptyList)
    ELSE Res([d EXCEPT ![key].Value.xs = Tail(@)], I64(Head(d[key].Value.xs)), ErrNone, << >>)

\* A Rename that leaves the entry under the old key as well.
RenameCopies(ctxDone, d, t, oldKey, newKey) ==
    IF ctxDone THEN Fail(d, ErrContextCanceled)
    ELSE IF oldKey = newKey THEN Res(d, Nil, ErrNone, << >>)
    ELSE IF ~exists(d, oldKey) \/ isExpired(d[oldKey], t) THEN Fail(d, ErrKeyNotFound)
    ELSE IF exists(d, newKey) THEN Fail(d, ErrKeyExists)
    ELSE Res([d EXCEPT ![newKey] = d[oldKey]], Nil, ErrNone, << >>)

\* Rename, with no other call between its two lock acquisitions.
Rename(ctxDone, d, t, oldKey, newKey) ==
    IF ctxDone THEN Fail(d, ErrContextCanceled)
    ELSE IF oldKey = "" \/ newKey = "" THEN Fail(d, ErrInvalidKey)
    ELSE IF oldKey = newKey THEN Res(d, Nil, ErrNone, << >>)
    ELSE IF ~exists(d, oldKey) \/ isExpired(d[oldKey], t) THEN Fail(d, ErrKeyNotFound)
    ELSE IF exists(d, newKey) THEN Fail(d, ErrKeyExists)
    ELSE Res([d EXCEPT ![newKey] = d[oldKey], ![oldKey] = NoEntry], Nil, ErrNone,
             << <<oldKey, <<"RENAMED">> >>, <<newKey, <<"CREATED (via rename)">> >> >>)

\* GetRawEntry: the entry as stored (kind and expiration included), a copy.
GetRawEntry(ctxDone, d, t, key) ==
    IF ctxDone THEN Fail(d, ErrContextCanceled)
    ELSE IF ~exists(d, key) THEN Fail(d, ErrKeyNotFound)
    ELSE IF isExpired(d[key], t) THEN Fail(d, ErrKeyExpired)
    ELSE Res(d, d[key], ErrNone, << >>)

\* RestoreRawEntry: overwrites the slot unconditionally.
RestoreRawEntry(ctxDone, d, t, key, entry) ==
    IF ctxDone THEN Fail(d, ErrContextCanceled)
    ELSE Res([d EXCEPT ![key] = entry], Nil, ErrNone, << >>)

\* GetSet: an expired entry counts as none; the new entry is always a String.
GetSet(ctxDone, d, t, key, newValue, ttl) ==
    IF ctxDone THEN Fail(d, ErrContextCanceled)
    ELSE IF ttl < 0 THEN Fail(d, ErrInvalidTTL)
    ELSE LET oldValue == IF exists(d, key) /\ ~isExpired(d[key], t) THEN d[key].Value ELSE Nil
         IN  Res([d EXCEPT ![key] = Entry(newValue, String, ttlSecondsToTime(t, ttl))],
                 oldValue, ErrNone, << <<key, <<"GETSET: ", oldValue, newValue>> >> >>)

\* IncrBy: like Incr with a step, and an entry that is not a String is refused.
IncrBy(ctxDone, d, t, key, increment) ==
    IF ctxDone THEN Fail(d, ErrContextCanceled)
    ELSE IF ~exists(d, key) \/ isExpired(d[key], t)
    THEN Res([d EXCEPT ![key] = Entry(I64(increment), String, 0)], I64(increment), ErrNone, << >>)
    ELSE IF d[key].Type # String THEN Fail(d, ErrInvalidType)
    ELSE IF d[key].Value.t # "int64" THEN Fail(d, ErrInvalidValueType)
    ELSE Res([d EXCEPT ![key].Value = I64(d[key].Value.v + increment)],
             I64(d[key].Value.v + increment), ErrNone, << >>)

Decr(ctxDone, d, t, key) ==
    IF ctxDone THEN Fail(d, ErrContextCanceled)
    ELSE IF ~exists(d, key) \/ isExpired(d[key], t)
    THEN Res([d EXCEPT ![key] = Entry(I64(0 - 1), String, 0)], I64(0 - 1), ErrNone, << >>)
    ELSE IF d[key].Value.t # "int64" THEN Fail(d, ErrInvalidValueType)
    ELSE Res([d EXCEPT ![key].Value = I64(d[key].Value.v - 1)],
             I64(d[key].Value.v - 1), ErrNone, << >>)

DecrBy(ctxDone, d, t, key, decrement) == IncrBy(ctxDone, d, t, key, 0 - decrement)

\* a sequence back to front
RECURSIVE Reverse(_)
Reverse(xs) == IF xs = << >> THEN << >> ELSE Append(Reverse(Tail(xs)), Head(xs))

\* the maps after the lazy delete of key's entry when it has expired
DropExpired(d, t, key) ==
    IF exists(d, key) /\ isExpired(d[key], t) THEN [d EXCEPT ![key] = NoEntry] ELSE d

\* An LPush that puts the values before the list in argument order.
LPushKeepsOrder(ctxDone, d, t, key, values) ==
    IF ctxDone THEN Fail(d, ErrContextCanceled)
    ELSE IF key = "" THEN Fail(d, ErrInvalidKey)
    ELSE IF values = << >> THEN Fail(d, ErrEmptyValues)
    ELSE LET d1 == DropExpired(d, t, key)
         IN  IF exists(d1, key) /\ (d1[key].Type # List \/ d1[key].Value.t # "list")
             THEN Fail(d1, ErrInvalidType)
             ELSE Res([d1 EXCEPT ![key] =
                          IF exists(d1, key)
                          THEN [d1[key] EXCEPT !.Value = ListOf(values \o d1[key].Value.xs)]
                          ELSE Entry(ListOf(values), List, 0)],
                      Nil, ErrNone, << <<key, <<"LPush: ", ListOf(values)>> >> >>)

\* LPush: the values, reversed, go before the list; a missing or expired key
\* becomes a list without expiration.
LPush(ctxDone, d, t, key, values) ==
    IF ctxDone THEN Fail(d, ErrContextCanceled)
    ELSE IF key = "" THEN Fail(d, ErrInvalidKey)
    ELSE IF values = << >> THEN Fail(d, ErrEmptyValues)
    ELSE LET d1 == DropExpired(d, t, key)
         IN  IF exists(d1, key) /\ (d1[key].Type # List \/ d1[key].Value.t # "list")
             THEN Fail(d1, ErrInvalidType)
             ELSE Res([d1 EXCEPT ![key] =
                          IF exists(d1, key)
                          THEN [d1[key] EXCEPT !.Value = ListOf(Reverse(values) \o d1[key].Value.xs)]
                          ELSE Entry(ListOf(Reverse(values)), List, 0)],
                      Nil, ErrNone, << <<key, <<"LPush: ", ListOf(values)>> >> >>)

\* RPush: the values go after the list, in order.
RPush(ctxDone, d, t, key, values) ==
    IF ctxDone THEN Fail(d, ErrContextCanceled)
    ELSE IF values = << >> THEN Fail(d, ErrEmptyValues)
    ELSE LET d1 == DropExpired(d, t, key)
         IN  IF exists(d1, key) /\ (d1[key].Type # List \/ d1[key].Value.t # "list")
             THEN Fail(d1, ErrInvalidType)
             ELSE Res([d1 EXCEPT ![key] =
                          IF exists(d1, key)
                          THEN [d1[key] EXCEPT !.Value = ListOf(d1[key].Value.xs \o values)]
                          ELSE Entry(ListOf(values), List, 0)],
                      Nil, ErrNone, << <<key, <<"RPush: ", ListOf(values)>> >> >>)

\* LPop, RPop: the head or the tail leaves the list; the key goes with the
\* last element.
LPop(ctxDone, d, t, key) ==
    IF ctxDone THEN Fail(d, ErrContextCanceled)
    ELSE IF ~exists(d, key) \/ isExpired(d[key], t) THEN Fail(d, ErrKeyNotFound)
    ELSE IF d[key].Type # List THEN Fail(d, ErrInvalidType)
    ELSE IF d[key].Value.t # "list" \/ d[key].Value.xs = << >> THEN Fail(d, ErrEmptyList)
    ELSE LET list == d[key].Value.xs
         IN  Res([d EXCEPT ![key] = IF Tail(list) = << >> THEN NoEntry
                                    ELSE [d[key] EXCEPT !.Value = ListOf(Tail(list))]],
                 I64(Head(list)), ErrNone, << >>)

RPop(ctxDone, d, t, key) ==
    IF ctxDone THEN Fail(d, ErrContextCanceled)
    ELSE IF ~exists(d, key) \/ isExpired(d[key], t) THEN Fail(d, ErrKeyNotFound)
    ELSE IF d[key].Type # List THEN Fail(d, ErrInvalidType)
    ELSE IF d[key].Value.t # "list" \/ d[key].Value.xs = << >> THEN Fail(d, ErrEmptyList)
    ELSE LET list == d[key].Value.xs
             rest == SubSeq(list, 1, Len(list) - 1)
         IN  Res([d EXCEPT ![key] = IF rest = << >> THEN NoEntry
                                    ELSE [d[key] EXCEPT !.Value = ListOf(rest)]],
                 I64(list[Len(list)]), ErrNone, << >>)

LLen(ctxDone, d, t, key) ==
    IF ctxDone THEN Res(d, GoInt(0), ErrContextCanceled, << >>)
    ELSE IF ~exists(d, key) \/ isExpired(d[key], t) THEN Res(d, GoInt(0), ErrKeyNotFound, << >>)
    ELSE IF d[key].Type # List \/ d[key].Value.t # "list" THEN Res(d, GoInt(0), ErrInvalidType, << >>)
    ELSE Res(d, GoInt(Len(d[key].Value.xs)), ErrNone, << >>)

\* LRange: indices count from 0, negative ones from the end; both ends are
\* clamped.
LRange(ctxDone, d, t, key, start, end) ==
    IF ctxDone THEN Fail(d, ErrContextCanceled)
    ELSE IF ~exists(d, key) \/ isExpired(d[key], t) THEN Fail(d, ErrKeyNotFound)
    ELSE IF d[key].Type # List \/ d[key].Value.t # "list" THEN Fail(d, ErrInvalidType)
    ELSE LET list == d[key].Value.xs
             length == Len(list)
             s1 == IF start < 0 THEN length + start ELSE start
             e1 == IF end < 0 THEN length + end ELSE end
             s2 == IF s1 < 0 THEN 0 ELSE s1
             e2 == IF e1 >= length THEN length - 1 ELSE e1
         IN  IF s2 > e2 \/ s2 >= length THEN Res(d, ListOf(<< >>), ErrNone, << >>)
             ELSE Res(d, ListOf(SubSeq(list, s2 + 1, e2 + 1)), ErrNone, << >>)

\* the fields of a hash, and the hash with a field set or removed
Fields(h) == {p[1] : p \in h}
HashPut(h, field, value) == {p \in h : p[1] # field} \cup {<<field, value>>}
HashDel(h, field) == {p \in h : p[1] # field}

\* An HSet that gives the hash the expiration of its own ttl in every case.
HSetResetsExpiration(ctxDone, d, t, key, field, value, ttl) ==
    IF ctxDone THEN Fail(d, ErrContextCanceled)
    ELSE IF ttl < 0 THEN Fail(d, ErrInvalidTTL)
    ELSE LET d1 == DropExpired(d, t, key)
         IN  IF exists(d1, key) /\ d1[key].Type # Hash THEN Fail(d1, ErrInvalidType)
             ELSE Res([d1 EXCEPT ![key] =
                          Entry(HashOf(HashPut(IF exists(d1, key) THEN d1[key].Value.h ELSE {},
                                               field, value)),
                                Hash, ttlSecondsToTime(t, ttl))],
                      Nil, ErrNone, << >>)

\* HSet: a missing or expired key becomes a hash; ttl 0 keeps the expiration
\* of a hash that is there.
HSet(ctxDone, d, t, key, field, value, ttl) ==
    IF ctxDone THEN Fail(d, ErrContextCanceled)
    ELSE IF ttl < 0 THEN Fail(d, ErrInvalidTTL)
    ELSE LET d1 == DropExpired(d, t, key)
         IN  IF ~exists(d1, key)
             THEN Res([d1 EXCEPT ![key] = Entry(HashOf({<<field, value>>}), Hash,
                                                ttlSecondsToTime(t, ttl))],
                      Nil, ErrNone, << >>)
             ELSE IF d1[key].Type # Hash THEN Fail(d1, ErrInvalidType)
             ELSE Res([d1 EXCEPT ![key] =
                          Entry(HashOf(HashPut(d1[key].Value.h, field, value)), Hash,
                                IF ttl = 0 THEN d1[key].Expiration
                                ELSE ttlSecondsToTime(t, ttl))],
                      Nil, ErrNone, << >>)

HGet(ctxDone, d, t, key, field) ==
    IF ctxDone THEN Fail(d, ErrContextCanceled)
    ELSE IF ~exists(d, key) \/ isExpired(d[key], t) THEN Fail(d, ErrKeyNotFound)
    ELSE IF d[key].Type # Hash THEN Fail(d, ErrInvalidType)
    ELSE IF field \notin Fields(d[key].Value.h) THEN Fail(d, ErrKeyNotFound)
    ELSE Res(d, I64((CHOOSE p \in d[key].Value.h : p[1] = field)[2]), ErrNone, << >>)

\* HDel: the field leaves the hash; the key goes with the last field.
HDel(ctxDone, d, t, key, field) ==
    IF ctxDone THEN Fail(d, ErrContextCanceled)
    ELSE IF ~exists(d, key) \/ isExpired(d[key], t) THEN Fail(d, ErrKeyNotFound)
    ELSE IF d[key].Type # Hash THEN Fail(d, ErrInvalidType)
    ELSE LET hash == HashDel(d[key].Value.h, field)
         IN  Res([d EXCEPT ![key] = IF hash = {} THEN NoEntry
                                    ELSE [d[key] EXCEPT !.Value = HashOf(hash)]],
                 Nil, ErrNone, << >>)

HGetAll(ctxDone, d, t, key) ==
    IF ctxDone THEN Fail(d, ErrContextCanceled)
    ELSE IF ~exists(d, key) \/ isExpired(d[key], t) THEN Fail(d, ErrKeyNotFound)
    ELSE IF d[key].Type # Hash THEN Fail(d, ErrInvalidType)
    ELSE Res(d, HashOf(d[key].Value.h), ErrNone, << >>)

HExists(ctxDone, d, t, key, field) ==
    IF ctxDone THEN Res(d, Bool(FALSE), ErrContextCanceled, << >>)
    ELSE IF ~exists(d, key) \/ isExpired(d[key], t) THEN Res(d, Bool(FALSE), ErrKeyNotFound, << >>)
    ELSE IF d[key].Type # Hash \/ d[key].Value.t # "hash"
    THEN Res(d, Bool(FALSE), ErrInvalidType, << >>)
    ELSE Res(d, Bool(field \in Fields(d[key].Value.h)), ErrNone, << >>)

HLen(ctxDone, d, t, key) ==
    IF ctxDone THEN Res(d, GoInt(0), ErrContextCanceled, << >>)
    ELSE IF ~exists(d, key) \/ isExpired(d[key], t) THEN Res(d, GoInt(0), ErrKeyNotFound, << >>)
    ELSE IF d[key].Type # Hash \/ d[key].Value.t # "hash"
    THEN Res(d, GoInt(0), ErrInvalidType, << >>)
    ELSE Res(d, GoInt(Cardinality(d[key].Value.h)), ErrNone, << >>)

Exists(ctxDone, d, t, key) ==
    IF ctxDone THEN Res(d, Bool(FALSE), ErrContextCanceled, << >>)
    ELSE Res(d, Bool(exists(d, key) /\ ~isExpired(d[key], t)), ErrNone, << >>)

\* An Expire that reports a key that is not there as an error.
ExpireFailsOnAbsent(ctxDone, d, t, key, ttl) ==
    IF ctxDone THEN Res(d, Bool(FALSE), ErrContextCanceled, << >>)
    ELSE IF ttl < 0 THEN Res(d, Bool(FALSE), ErrInvalidTTL, << >>)
    ELSE IF ~exists(d, key) \/ isExpired(d[key], t)
    THEN Res(d, Bool(FALSE), ErrKeyNotFound, << >>)
    ELSE Res([d EXCEPT ![key].Expiration = ttlSecondsToTime(t, ttl)], Bool(TRUE), ErrNone, << >>)

\* Expire: a new expiration for an entry that is there; ttl 0 removes it.
Expire(ctxDone, d, t, key, ttl) ==
    IF ctxDone THEN Res(d, Bool(FALSE), ErrContextCanceled, << >>)
    ELSE IF ttl < 0 THEN Res(d, Bool(FALSE), ErrInvalidTTL, << >>)
    ELSE IF ~exists(d, key) \/ isExpired(d[key], t) THEN Res(d, Bool(FALSE), ErrNone, << >>)
    ELSE Res([d EXCEPT ![key].Expiration = ttlSecondsToTime(t, ttl)], Bool(TRUE), ErrNone, << >>)

Persist(ctxDone, d, t, key) ==
    IF ctxDone THEN Res(d, Bool(FALSE), ErrContextCanceled, << >>)
    ELSE IF ~exists(d, key) \/ isExpired(d[key], t) THEN Res(d, Bool(FALSE), ErrNone, << >>)
    ELSE IF d[key].Expiration = 0 THEN Res(d, Bool(FALSE), ErrNone, << >>)
    ELSE Res([d EXCEPT ![key].Expiration = 0], Bool(TRUE), ErrNone, << >>)

Type(ctxDone, d, t, key) ==
    IF ctxDone THEN Res(d, GoInt(0 - 1), ErrContextCanceled, << >>)
    ELSE IF ~exists(d, key) \/ isExpired(d[key], t) THEN Res(d, GoInt(0 - 1), ErrKeyNotFound, << >>)
    ELSE Res(d, Kind(d[key].Type), ErrNone, << >>)

\* GetWithDetails: the value, and the seconds left (-1 without expiration) in
\* the field ttl of the result.
GetWithDetails(ctxDone, d, t, key) ==
    LET r == IF ctxDone THEN Fail(d, ErrContextCanceled)
             ELSE IF ~exists(d, key) THEN Fail(d, ErrKeyNotFound)
             ELSE IF isExpired(d[key], t) THEN Fail(d, ErrKeyExpired)
             ELSE Res(d, d[key].Value, ErrNone, << >>)
    IN  [d |-> r.d, ret |-> r.ret, err |-> r.err, pub |-> r.pub,
         ttl |-> IF r.err # ErrNone THEN 0
                 ELSE IF d[key].Expiration = 0 THEN 0 - 1
                 ELSE d[key].Expiration - t]

\* FindByValue for a scalar value: the keys whose unexpired entry holds it.
FindByValue(ctxDone, d, t, value) ==
    IF ctxDone THEN Fail(d, ErrContextCanceled)
    ELSE LET keys == {k \in Keys : /\ exists(d, k)
                                   /\ ~isExpired(d[k], t)
                                   /\ d[k].Value = value}
         IN  IF keys = {} THEN Fail(d, ErrKeyNotFound)
             ELSE Res(d, KeyList(keys), ErrNone, << >>)

\* DropAll: every slot goes, each with a FLUSH_ALL on its topic; order is the
\* order in which the maps hand out their keys.
DropAll(ctxDone, d, t, order) ==
    IF ctxDone THEN Fail(d, ErrContextCanceled)
    ELSE Res([k \in Keys |-> NoEntry], Nil, ErrNone,
             [i \in 1..Len(order) |-> <<order[i], <<"FLUSH_ALL">> >>])

\* The channels after the messages pub were published in order.
RECURSIVE DeliverAll(_, _)
DeliverAll(bufs, pub) ==
    IF pub = << >> THEN bufs
    ELSE DeliverAll(Deliver(bufs, Head(pub)[1], Head(pub)[2]), Tail(pub))

\* time passes
Tick ==
    /\ now < MaxTime
    /\ now' = now + 1
    /\ UNCHANGED <<busVars, data, mu, procVars, reaperVars, txVars>>

\* The reaper and the transaction client at rest.  done: cleanupCtx has been
\* cancelled.
ReaperIdle == reaper = [pc |-> "wait", shard |-> 0, checkLimit |-> 0, done |-> FALSE]
NoTx == [made |-> FALSE, active |-> FALSE, commands |-> << >>, rollback |-> << >>]
\* pub: the messages the call published, in order
Call2(op, key, key2, ret, err) ==
    [key |-> key, op |-> op, ret |-> ret, err |-> err, pub |-> << >>, key2 |-> key2]
Call(op, key, ret, err) == Call2(op, key, "", ret, err)
NoCall == Call("none", "", Nil, ErrNone)
\* born: the shard maps when the transaction was made; first: when it recorded
\* its first operation; named: the keys its operations named; touched: the keys
\* other clients wrote since it was made; mutated: whether another client wrote
\* between its first recorded operation and its end; ended: whether Commit or
\* Rollback was called; outcome: how it ended; recorded: the commands it held
\* then; applied: the commands its Commit ran with success; writes: the calls
\* the other client made; alone: the shard maps as the other clients' calls
\* alone would have left them; over: the keys another client wrote after the
\* transaction had named them; cause: the error of the command that made
\* Commit fail, as the message of the error Commit returns gives it.
Observed(born) ==
    [born |-> born, first |-> born, named |-> {}, touched |-> {},
     mutated |-> FALSE, ended |-> FALSE, outcome |-> "none", applied |-> 0,
     recorded |-> 0, writes |-> 0, alone |-> born, over |-> {}, cause |-> ErrNone]
TxIdle ==
    /\ tx = NoTx
    /\ last = NoCall
    /\ pre = Observed(<< >>)

(***************************************************************************)
(* DB.Rename, one goroutine per call, a step per lock acquisition.         *)
(***************************************************************************)
Return(p, err) ==
    /\ pc' = [pc EXCEPT ![p] = "done"]
    /\ loc' = [loc EXCEPT ![p] = [@ EXCEPT !.err = err]]
    /\ UNCHANGED hist

\* Rename up to its first Lock: the argument checks.
RenameCall(p, oldKey, newKey) ==
    /\ pc[p] = "idle"
    /\ UNCHANGED <<reaperVars, txVars>>
    /\ IF oldKey = newKey
       THEN /\ pc' = [pc EXCEPT ![p] = "done"]
            /\ loc' = [loc EXCEPT ![p] =
                  [op |-> "Rename", oldKey |-> oldKey, newKey |-> newKey, err |-> ErrNone]]
       ELSE /\ pc' = [pc EXCEPT ![p] = "lockOld"]
            /\ loc' = [loc EXCEPT ![p] =
                  [op |-> "Rename", oldKey |-> oldKey, newKey |-> newKey, err |-> "?"]]
    /\ UNCHANGED <<busVars, storeVars, hist>>

\* The target-shard part of Rename, under the locks: the conflict check, the move.
RenameMove(p, held) ==
    LET oldKey == loc[p].oldKey
        newKey == loc[p].newKey
    IN  IF exists(data, newKey)
        THEN /\ Return(p, ErrKeyExists)
             /\ mu' = [i \in ShardIds |-> IF i \in held THEN Unlocked ELSE mu[i]]
             /\ UNCHANGED <<busVars, data, now>>
        ELSE /\ data' = [data EXCEPT ![newKey] = data[oldKey], ![oldKey] = NoEntry]
             /\ chanBuf' = Deliver(Deliver(chanBuf, oldKey, "RENAMED"),
                                   newKey, "CREATED (via rename)")
             /\ Return(p, ErrNone)
             /\ mu' = [i \in ShardIds |-> IF i \in held THEN Unlocked ELSE mu[i]]
             /\ UNCHANGED <<subscribers, closes, nextCh, panicked, offered, consumed,
                            npub, now>>

\* oldShard.mu.Lock() and what follows up to newShard.mu.Lock().
RenameLockOld(p) ==
    /\ pc[p] = "lockOld"
    /\ UNCHANGED <<reaperVars, txVars>>
    /\ LET oldShard == ShardOf[loc[p].oldKey]
           newShard == ShardOf[loc[p].newKey]
           entry == data[loc[p].oldKey]
       IN  /\ CanLock(mu[oldShard])
           /\ IF ~exists(data, loc[p].oldKey) \/ isExpired(entry, now)
              THEN /\ Return(p, ErrKeyNotFound)
                   /\ UNCHANGED <<busVars, storeVars>>
              ELSE IF oldShard # newShard
              THEN /\ mu' = [mu EXCEPT ![oldShard] = [w |-> p, r |-> {}]]
                   /\ pc' = [pc EXCEPT ![p] = "lockNew"]
                   /\ UNCHANGED <<busVars, data, now, loc, hist>>
              ELSE RenameMove(p, {oldShard})

\* newShard.mu.Lock() and the rest of Rename; the deferred Unlocks run at return.
RenameLockNew(p) ==
    /\ pc[p] = "lockNew"
    /\ UNCHANGED <<reaperVars, txVars>>
    /\ LET oldShard == ShardOf[loc[p].oldKey]
           newShard == ShardOf[loc[p].newKey]
       IN  /\ CanLock(mu[newShard])
           /\ RenameMove(p, {oldShard, newShard})

\* The caller takes the result and is free to call again.
RenameReturn(p) ==
    /\ pc[p] = "done"
    /\ UNCHANGED <<reaperVars, txVars>>
    /\ pc' = [pc EXCEPT ![p] = "idle"]
    /\ loc' = [loc EXCEPT ![p] = NoLocals]
    /\ UNCHANGED <<busVars, storeVars, hist>>

\* the keys the goroutines rename
RenameKeys == {"a", "b", "c"}

InitRename ==
    /\ NewPubSub
    /\ ReaperIdle
    /\ TxIdle
    /\ \E present \in SUBSET RenameKeys :
          data = [k \in Keys |-> IF k \in present
                                 THEN Entry(Str(ShardOf[k] + 1), String, 0) ELSE NoEntry]
    /\ mu = [i \in ShardIds |-> Unlocked]
    /\ now = 1
    /\ pc = [p \in Procs |-> "idle"]
    /\ loc = [p \in Procs |-> NoLocals]
    /\ hist = [p \in Procs |-> << >>]

NextRename ==
    \/ \E p \in Procs, oldKey \in RenameKeys, newKey \in RenameKeys :
          RenameCall(p, oldKey, newKey)
    \/ \E p \in Procs : RenameLockOld(p)
    \/ \E p \in Procs : RenameLockNew(p)
    \/ \E p \in Procs : RenameReturn(p)

SpecRename == InitRename /\ [][NextRename]_vars

\* Rename call p holds its old-key shard and waits for the shard q holds.
RenameWaitsFor(p, q) ==
    /\ pc[p] = "lockNew"
    /\ mu[ShardOf[loc[p].newKey]].w = q

\* C2: no state is reached in which two Rename calls each hold one shard lock
\* and wait for the lock the other holds (so every set of concurrent Rename
\* calls can always run to its end).
C2_NoRenameDeadlock ==
    ~ \E p, q \in Procs :
        p # q /\ RenameWaitsFor(p, q) /\ RenameWaitsFor(q, p)

\* The store and the goroutines at rest (specifications that do not run them).
StoreIdle ==
    /\ data = [k \in Keys |-> NoEntry]
    /\ mu = [i \in ShardIds |-> Unlocked]
    /\ now = 1
    /\ pc = [p \in Procs |-> "idle"]
    /\ loc = [p \in Procs |-> NoLocals]
    /\ hist = [p \in Procs |-> << >>]
    /\ ReaperIdle
    /\ TxIdle

(***************************************************************************)
(* The reaper: cleanupExpiredKeys and processShard.  The store holds what  *)
(* Set calls at instant 1 left in it (no TTL, or a TTL of TTL seconds);    *)
(* clients subscribe to keys; nothing reads or writes the store but the    *)
(* reaper.                                                                 *)
(***************************************************************************)
\* the constants of cleanupExpiredKeys, in hundredths
BasePercentage == 25
AggressionFactor == 120
CooldownThreshold == 10
\* int(float64(n) * f) for the factor f = pct / 100
Scaled(n, pct) == (n * pct) \div 100

\* the TTL of the entries that have one, in seconds
TTL == 1

KeysOfShard(i) == {k \in Keys : ShardOf[k] = i /\ exists(data, k)}

\* The orders in which range may visit the keys of a map, for every set of keys.
OrdersOf ==
    [S \in SUBSET Keys |->
        {f \in [1..Cardinality(S) -> S] :
            \A i, j \in 1..Cardinality(S) : i # j => f[i] # f[j]}]
Orders(S) == OrdersOf[S]

\* A sampling loop that takes every key it visits for expired.
ScanTakesAll(order, i, checked, checkLimit, expiredKeys) ==
    [j \in 1..(IF Len(order) < checkLimit THEN Len(order) ELSE checkLimit) |-> order[j]]

\* The sampling loop of processShard over the keys in the order given: the
\* keys found expired among the first checkLimit visited (the limit grows in
\* aggressive mode).
RECURSIVE Scan(_, _, _, _, _)
Scan(order, i, checked, checkLimit, expiredKeys) ==
    IF i > Len(order) \/ checked >= checkLimit THEN expiredKeys
    ELSE IF isExpired(data[order[i]], now)
    THEN LET found == Append(expiredKeys, order[i])
         IN  Scan(order, i + 1, checked + 1,
                  IF Len(found) > Scaled(checked + 1, CooldownThreshold)
                  THEN Scaled(checkLimit, AggressionFactor) ELSE checkLimit,
                  found)
    ELSE Scan(order, i + 1, checked + 1, checkLimit, expiredKeys)

\* the reaper after processShard returned for its current shard
ReaperAdvance ==
    reaper' = IF reaper.shard + 1 < ShardCount
              THEN [reaper EXCEPT !.pc = "size", !.shard = @ + 1, !.checkLimit = 0]
              ELSE [reaper EXCEPT !.pc = "wait", !.shard = 0, !.checkLimit = 0]

\* case <-ticker.C: a pass over the shards begins.
ReaperTick ==
    /\ reaper.pc = "wait"
    /\ reaper' = [reaper EXCEPT !.pc = "size", !.shard = 0, !.checkLimit = 0]
    /\ UNCHANGED <<busVars, storeVars, procVars, txVars>>

\* processShard under the read lock: the sample size; a shard whose sample
\* size is below 1 is left alone.
ReaperSize ==
    /\ reaper.pc = "size"
    /\ CanRLock(mu[reaper.shard])
    /\ LET totalKeys == Cardinality(KeysOfShard(reaper.shard))
           checkLimit == Scaled(totalKeys, BasePercentage)
       IN  IF checkLimit < 1
           THEN ReaperAdvance
           ELSE reaper' = [reaper EXCEPT !.pc = "sweep", !.checkLimit = checkLimit]
    /\ UNCHANGED <<busVars, storeVars, procVars, txVars>>

\* processShard under the write lock: the sampling loop over the map in the
\* order range yields, then the removal of the expired keys found, each with
\* its EXPIRED notification.  Where the run keeps a log of the mutations (an
\* observer), the removals are entered in it.
ReaperSweep(order) ==
    /\ reaper.pc = "sweep"
    /\ CanLock(mu[reaper.shard])
    /\ order \in Orders(KeysOfShard(reaper.shard))
    /\ LET expiredKeys == Scan(order, 1, 0, reaper.checkLimit, << >>)
           deleted == {expiredKeys[i] : i \in 1..Len(expiredKeys)}
           told == {s \in Sinks : \E k \in deleted :
                        k \in DOMAIN subscribers /\ s \in subscribers[k]}
       IN  /\ data' = [k \in Keys |-> IF k \in deleted THEN NoEntry ELSE data[k]]
           /\ chanBuf' = [s \in Sinks |->
                 IF s \in told THEN TrySend(chanBuf[s], <<"EXPIRED">>) ELSE chanBuf[s]]
           /\ offered' = [s \in Sinks |->
                 IF s \in told THEN Append(offered[s], <<"EXPIRED">>) ELSE offered[s]]
           /\ pre' = IF "log" \in DOMAIN pre
                     THEN [pre EXCEPT !.log = @ \o [i \in 1..Len(expiredKeys) |->
                                                      <<expiredKeys[i], <<"EXPIRED">> >>]]
                     ELSE pre
    /\ ReaperAdvance
    /\ UNCHANGED <<subscribers, closes, nextCh, panicked, consumed, npub>>
    /\ UNCHANGED <<mu, now, procVars, tx, last>>

\* A sweep, whatever the order of the iteration.
ReaperSweepAny ==
    \E order \in Orders(KeysOfShard(reaper.shard)) : ReaperSweep(order)

InitReaper ==
    /\ NewPubSub
    /\ \E stored \in SUBSET Keys, timed \in SUBSET Keys :
          /\ timed \subseteq stored
          /\ data = [k \in Keys |->
                IF k \in timed THEN Entry(Str(1), String, ttlSecondsToTime(1, TTL))
                ELSE IF k \in stored THEN Entry(Str(1), String, ttlSecondsToTime(1, 0))
                ELSE NoEntry]
    /\ mu = [i \in ShardIds |-> Unlocked]
    /\ now = 1
    /\ pc = [p \in Procs |-> "idle"]
    /\ loc = [p \in Procs |-> NoLocals]
    /\ hist = [p \in Procs |-> << >>]
    /\ ReaperIdle
    /\ TxIdle

NextReaper ==
    \/ \E key \in Keys : Subscribe(key)
    \/ Tick
    \/ ReaperTick
    \/ ReaperSize
    \/ ReaperSweepAny

SpecReaper == InitReaper /\ [][NextReaper]_vars

\* A sweep whose sample holds an expired key.
ReaperSweepExpired ==
    \E order \in Orders(KeysOfShard(reaper.shard)) : ReaperSweep(order) /\ data' # data

\* Time passes, the ticker keeps firing, the reaper goroutine keeps running,
\* and the start of a map iteration is random: where a swept shard holds an
\* expired key, a sweep samples one sooner or later.
LiveReaper ==
    /\ SpecReaper
    /\ WF_vars(Tick)
    /\ WF_vars(ReaperTick)
    /\ WF_vars(ReaperSize)
    /\ WF_vars(ReaperSweepAny)
    /\ SF_vars(ReaperSweepExpired)

\* C5: a key stored with a TTL that a sink is subscribed to is eventually
\* removed by the reaper, and the sink is sent exactly one message, EXPIRED;
\* also when the key is the only entry of its shard.  (A sink is registered
\* under one key, for good: nothing unsubscribes here.)
C5_ExpiredKeyIsReaped ==
    \A s \in Sinks :
        (\E key \in DOMAIN subscribers :
            s \in subscribers[key] /\ exists(data, key) /\ data[key].Expiration # 0)
        ~> (\E key \in DOMAIN subscribers :
               /\ s \in subscribers[key] /\ ~exists(data, key)
               /\ offered[s] = << <<"EXPIRED">> >> /\ chanBuf[s] = << <<"EXPIRED">> >>)

(***************************************************************************)
(* DB.Incr called concurrently: Workers goroutines, Iterations calls each, *)
(* all on IncrKey.  A call is a lock acquisition, the read of the entry,   *)
(* and the write with the deferred Unlock.                                 *)
(***************************************************************************)
IncrKey == "a"

IncrCall(p) ==
    /\ pc[p] = "idle"
    /\ UNCHANGED <<reaperVars, txVars>>
    /\ Len(hist[p]) < Iterations
    /\ pc' = [pc EXCEPT ![p] = "lock"]
    /\ loc' = [loc EXCEPT ![p] = [op |-> "Incr", key |-> IncrKey]]
    /\ UNCHANGED <<busVars, storeVars, hist>>

\* sh.mu.Lock()
IncrLock(p) ==
    /\ pc[p] = "lock"
    /\ UNCHANGED <<reaperVars, txVars>>
    /\ CanLock(mu[ShardOf[loc[p].key]])
    /\ mu' = [mu EXCEPT ![ShardOf[loc[p].key]] = [w |-> p, r |-> {}]]
    /\ pc' = [pc EXCEPT ![p] = "read"]
    /\ UNCHANGED <<busVars, data, now, loc, hist>>

\* entry, exists := sh.data[key]
IncrRead(p) ==
    /\ pc[p] = "read"
    /\ UNCHANGED <<reaperVars, txVars>>
    /\ loc' = [loc EXCEPT ![p] = [op |-> "Incr", key |-> loc[p].key,
                                  entry |-> data[loc[p].key]]]
    /\ pc' = [pc EXCEPT ![p] = "write"]
    /\ UNCHANGED <<busVars, storeVars, hist>>

\* the rest of Incr on the entry read: the new value is stored and returned,
\* and the deferred Unlock runs.
IncrWrite(p) ==
    /\ pc[p] = "write"
    /\ UNCHANGED <<reaperVars, txVars>>
    /\ LET key == loc[p].key
           r == Incr(FALSE, [data EXCEPT ![key] = loc[p].entry], now, key)
       IN  /\ data' = [data EXCEPT ![key] = r.d[key]]
           /\ hist' = [hist EXCEPT ![p] = Append(@, [ret |-> r.ret, err |-> r.err])]
    /\ mu' = [mu EXCEPT ![ShardOf[loc[p].key]] = Unlocked]
    /\ pc' = [pc EXCEPT ![p] = "idle"]
    /\ loc' = [loc EXCEPT ![p] = NoLocals]
    /\ UNCHANGED <<busVars, now>>

InitIncr == NewPubSub /\ StoreIdle

NextIncr ==
    \/ \E p \in Procs : IncrCall(p)
    \/ \E p \in Procs : IncrLock(p)
    \/ \E p \in Procs : IncrRead(p)
    \/ \E p \in Procs : IncrWrite(p)

SpecIncr == InitIncr /\ [][NextIncr]_vars

IncrCalls == {<<p, i>> \in Procs \X (1..Iterations) : i <= Len(hist[p])}
IncrAllDone == \A p \in Procs : pc[p] = "idle" /\ Len(hist[p]) = Iterations

\* C6: Workers goroutines each calling Incr Iterations times on one absent
\* key lose no increment: every call succeeds, no two calls return the same
\* value, the values returned so far are 1..(number of completed calls), the
\* key holds the number of completed calls, and at the end that is
\* Workers * Iterations.
C6_IncrLosesNoIncrement ==
    /\ \A c \in IncrCalls : hist[c[1]][c[2]].err = ErrNone
    /\ \A c1, c2 \in IncrCalls : c1 # c2 => hist[c1[1]][c1[2]].ret # hist[c2[1]][c2[2]].ret
    /\ {hist[c[1]][c[2]].ret : c \in IncrCalls} = {I64(n) : n \in 1..Cardinality(IncrCalls)}
    /\ (\A p \in Procs : pc[p] # "write") =>
          IF IncrCalls = {} THEN data[IncrKey] = NoEntry
          ELSE data[IncrKey] = Entry(I64(Cardinality(IncrCalls)), String, 0)
    /\ IncrAllDone => data[IncrKey].Value = I64(Workers * Iterations)

\* All the calls have returned.
C6_AllIncrDone == IncrAllDone /\ Workers > 1 /\ Iterations > 1

InitBus == NewPubSub /\ StoreIdle

NextBus ==
    \/ \E key \in Topics : Subscribe(key)
    \/ \E key \in Topics, ch \in Sinks : Unsubscribe(key, ch)
    \/ \E key \in Topics : Publish(key, npub + 1)
    \/ \E key \in Topics : UnsubscribeAllForKey(key)
    \/ PubSubClose
    \/ \E ch \in Sinks : Receive(ch)

SpecBus == InitBus /\ [][NextBus]_vars

\* C3: over any sequence of Subscribe, Unsubscribe, UnsubscribeAllForKey and
\* Close, close(ch) runs at most once on every sink (never a second time).
C3_SinkClosedAtMostOnce == \A s \in Sinks : closes[s] <= 1

Min(x, y) == IF x < y THEN x ELSE y

MaxCmds == 2

\* calls the other client makes in one run
MaxWrites == 1

\* commands a transaction records in the runs with a subscriber
MaxRecorded == 1

\* the keys the clients use
TxKeys == {"a", "b"}

\* a []interface{} value
Lst(n) == ListOf(<<n>>)

\* what the store shows of the maps d at instant t: an expired entry is absent
Visible(d, t) ==
    [k \in Keys |-> IF exists(d, k) /\ ~isExpired(d[k], t) THEN d[k] ELSE NoEntry]

\* a buffered command closure: the store call it makes, with its arguments
Cmd(op, key, key2, value, ttl) ==
    [op |-> op, key |-> key, key2 |-> key2, value |-> value, ttl |-> ttl, old |-> Nil]
CasCmd(key, oldValue, newValue, ttl) ==
    [Cmd("SetCAS", key, "", newValue, ttl) EXCEPT !.old = oldValue]

\* The command closure of Transaction.SetXX: a false answer without an error is
\* turned into ErrKeyNotFound.
SetXXCmd(d, t, key, value, ttl) ==
    LET r == SetXX(FALSE, d, t, key, value, ttl)
    IN  IF r.err = ErrNone /\ r.ret = Bool(FALSE) THEN Fail(r.d, ErrKeyNotFound) ELSE r

\* Command closures that write whatever the store holds.
ExecCmdUnconditional(c, d, t) ==
    CASE c.op \in {"Set", "SetNX", "SetXX", "SetCAS"} -> Set(FALSE, d, t, c.key, c.value, c.ttl)
      [] c.op = "Incr" -> Incr(FALSE, d, t, c.key)
      [] c.op = "Delete" -> Delete(FALSE, d, t, c.key)
      [] c.op = "Rename" -> Rename(FALSE, d, t, c.key, c.key2)

\* cmd(): the store call of a command, on the maps d at instant t
ExecCmd(c, d, t) ==
    CASE c.op = "Set" -> Set(FALSE, d, t, c.key, c.value, c.ttl)
      [] c.op = "SetNX" -> SetNX(FALSE, d, t, c.key, c.value, c.ttl)
      [] c.op = "SetXX" -> SetXXCmd(d, t, c.key, c.value, c.ttl)
      [] c.op = "SetCAS" -> SetCAS(FALSE, d, t, c.key, c.old, c.value, c.ttl)
      [] c.op = "Incr" -> Incr(FALSE, d, t, c.key)
      [] c.op = "Delete" -> Delete(FALSE, d, t, c.key)
      [] c.op = "Rename" -> Rename(FALSE, d, t, c.key, c.key2)
      [] c.op = "HSet" -> HSet(FALSE, d, t, c.key, c.key2, c.value.v, c.ttl)
      [] c.op = "HDel" -> HDel(FALSE, d, t, c.key, c.key2)
      [] c.op = "RPush" -> RPush(FALSE, d, t, c.key, c.value.xs)
      [] c.op = "LPop" -> LPop(FALSE, d, t, c.key)

\* A loop that goes on after a command has failed, and reports the first error.
RECURSIVE RunCommandsPastError(_, _, _, _, _)
RunCommandsPastError(commands, i, d, t, pub) ==
    IF i > Len(commands) THEN [d |-> d, err |-> ErrNone, pub |-> pub, applied |-> i - 1]
    ELSE LET r == ExecCmd(commands[i], d, t)
             rest == RunCommandsPastError(commands, i + 1, r.d, t, pub \o r.pub)
         IN  IF r.err # ErrNone
             THEN [rest EXCEPT !.err = r.err, !.applied = i - 1]
             ELSE rest

\* The loop of Commit from command i on: it stops at the first error.
RECURSIVE RunCommands(_, _, _, _, _)
RunCommands(commands, i, d, t, pub) ==
    IF i > Len(commands) THEN [d |-> d, err |-> ErrNone, pub |-> pub, applied |-> i - 1]
    ELSE LET r == ExecCmd(commands[i], d, t)
         IN  IF r.err # ErrNone
             THEN [d |-> r.d, err |-> r.err, pub |-> pub \o r.pub, applied |-> i - 1]
             ELSE RunCommands(commands, i + 1, r.d, t, pub \o r.pub)

\* getRawEntryOrNil: a missing or expired key is a key that did not exist.
getRawEntryOrNil(d, t, key) ==
    LET r == GetRawEntry(FALSE, d, t, key)
    IN  IF r.err = ErrNone THEN [key |-> key, entry |-> r.ret, existed |-> TRUE, err |-> ErrNone]
        ELSE IF r.err \in {ErrKeyNotFound, ErrKeyExpired}
        THEN [key |-> key, entry |-> NoEntry, existed |-> FALSE, err |-> ErrNone]
        ELSE [key |-> key, entry |-> NoEntry, existed |-> FALSE, err |-> r.err]

\* A compensation that deletes the key whatever the snapshot says.
UndoDeleteOnly(snap, d, t) ==
    Res(Delete(FALSE, d, t, snap.key).d, Nil, ErrNone, Delete(FALSE, d, t, snap.key).pub)

\* A compensation whose snapshot of a hash or list shares the container with
\* the store's entry: what it restores is the container as the store has it.
UndoSharesContainer(snap, d, t) ==
    IF snap.existed /\ snap.entry.Type \in {Hash, List} /\ exists(d, snap.key)
       /\ d[snap.key].Type = snap.entry.Type
    THEN Res([d EXCEPT ![snap.key] = [snap.entry EXCEPT !.Value = d[snap.key].Value]],
             Nil, ErrNone, << >>)
    ELSE IF snap.existed
    THEN Res([d EXCEPT ![snap.key] = snap.entry], Nil, ErrNone, << >>)
    ELSE Res(Delete(FALSE, d, t, snap.key).d, Nil, ErrNone, Delete(FALSE, d, t, snap.key).pub)

\* The body of a compensating closure for one key: the snapshot is restored
\* when the key existed, the key is deleted otherwise; errors are dropped.
Undo(snap, d, t) ==
    IF snap.existed
    THEN Res(RestoreRawEntry(FALSE, d, t, snap.key, snap.entry).d, Nil, ErrNone,
             RestoreRawEntry(FALSE, d, t, snap.key, snap.entry).pub)
    ELSE Res(Delete(FALSE, d, t, snap.key).d, Nil, ErrNone, Delete(FALSE, d, t, snap.key).pub)

\* One compensating closure: its snapshots, in the order it handles them.
RECURSIVE RunUndo(_, _, _, _)
RunUndo(snaps, d, t, pub) ==
    IF snaps = << >> THEN [d |-> d, pub |-> pub]
    ELSE LET r == Undo(Head(snaps), d, t)
         IN  RunUndo(Tail(snaps), r.d, t, pub \o r.pub)

\* A rollback that runs no closure.
rollbackNothing(rollback, d, t, pub) == [d |-> d, pub |-> pub]

\* A rollback that runs the closures in the order they were recorded.
RECURSIVE rollbackInRecordingOrder(_, _, _, _)
rollbackInRecordingOrder(rollback, d, t, pub) ==
    IF rollback = << >> THEN [d |-> d, pub |-> pub]
    ELSE LET r == RunUndo(Head(rollback), d, t, pub)
         IN  rollbackInRecordingOrder(Tail(rollback), r.d, t, r.pub)

\* rollbackCommands: every closure recorded, the last one first.
RECURSIVE rollbackCommands(_, _, _, _)
rollbackCommands(rollback, d, t, pub) ==
    IF rollback = << >> THEN [d |-> d, pub |-> pub]
    ELSE LET r == RunUndo(rollback[Len(rollback)], d, t, pub)
         IN  rollbackCommands(SubSeq(rollback, 1, Len(rollback) - 1), r.d, t, r.pub)

\* A clear that leaves the transaction active.
clearKeepsActive(t) == [t EXCEPT !.commands = << >>, !.rollback = << >>]

clear(t) == [t EXCEPT !.commands = << >>, !.rollback = << >>, !.active = FALSE]

\* What the recording methods share: the active check, the snapshots of the
\* keys named, the two appends.
Record(c, keys) ==
    /\ LET snaps == [i \in 1..Len(keys) |-> getRawEntryOrNil(data, now, keys[i])]
           failed == {i \in 1..Len(keys) : snaps[i].err # ErrNone}
       IN  IF ~tx.active
           THEN /\ last' = Call(c.op, c.key, Nil, ErrTransactionNotActive)
                /\ UNCHANGED <<tx, pre>>
           ELSE IF failed # {}
           THEN /\ last' = Call(c.op, c.key, Nil, snaps[CHOOSE i \in failed : TRUE].err)
                /\ UNCHANGED <<tx, pre>>
           ELSE /\ Len(tx.commands) < MaxCmds
                /\ tx' = [tx EXCEPT !.commands = Append(@, c), !.rollback = Append(@, snaps)]
                /\ last' = Call(c.op, c.key, Nil, ErrNone)
                /\ pre' = [pre EXCEPT !.first = IF pre.named = {} THEN data ELSE @,
                                      !.named = @ \cup {keys[i] : i \in 1..Len(keys)}]
    /\ UNCHANGED <<busVars, storeVars, procVars, reaperVars>>

\* A Set that is applied to the store when it is recorded.
TxSetWritesThrough(key, value, ttl) ==
    /\ tx.made
    /\ tx.active
    /\ Len(tx.commands) < MaxCmds
    /\ LET r == Set(FALSE, data, now, key, value, ttl)
       IN  /\ data' = r.d
           /\ chanBuf' = DeliverAll(chanBuf, r.pub)
    /\ tx' = [tx EXCEPT !.commands = Append(@, Cmd("Set", key, "", value, ttl)),
                        !.rollback = Append(@, <<getRawEntryOrNil(data, now, key)>>)]
    /\ last' = Call("Set", key, Nil, ErrNone)
    /\ pre' = [pre EXCEPT !.named = @ \cup {key}]
    /\ UNCHANGED <<subscribers, closes, nextCh, panicked, offered, consumed, npub>>
    /\ UNCHANGED <<mu, now, procVars, reaperVars>>

TxSet(key, value, ttl) ==
    /\ tx.made
    /\ Record(Cmd("Set", key, "", value, ttl), <<key>>)

TxSetNX(key, value, ttl) ==
    /\ tx.made
    /\ Record(Cmd("SetNX", key, "", value, ttl), <<key>>)

TxSetXX(key, value, ttl) ==
    /\ tx.made
    /\ Record(Cmd("SetXX", key, "", value, ttl), <<key>>)

TxSetCAS(key, oldValue, newValue, ttl) ==
    /\ tx.made
    /\ Record(CasCmd(key, oldValue, newValue, ttl), <<key>>)

TxIncr(key) ==
    /\ tx.made
    /\ Record(Cmd("Incr", key, "", Nil, 0), <<key>>)

TxDelete(key) ==
    /\ tx.made
    /\ Record(Cmd("Delete", key, "", Nil, 0), <<key>>)

TxRename(oldKey, newKey) ==
    /\ tx.made
    /\ Record(Cmd("Rename", oldKey, newKey, Nil, 0), <<oldKey, newKey>>)


\* The value of the last Set the transaction has buffered for key.
RECURSIVE Buffered(_, _)
Buffered(commands, key) ==
    IF commands = << >> THEN Nil
    ELSE LET c == commands[Len(commands)]
         IN  IF c.op = "Set" /\ c.key = key THEN c.value
             ELSE Buffered(SubSeq(commands, 1, Len(commands) - 1), key)

\* A Get that answers from the buffered Set when there is one.
TxGetReadsBuffer(key) ==
    /\ tx.made
    /\ IF ~tx.active
       THEN /\ last' = Call("Get", key, Nil, ErrTransactionNotActive)
            /\ UNCHANGED data
       ELSE IF Buffered(tx.commands, key) # Nil
       THEN /\ last' = Call("Get", key, Buffered(tx.commands, key), ErrNone)
            /\ UNCHANGED data
       ELSE LET r == Get(FALSE, data, now, key)
            IN  /\ data' = r.d
                /\ last' = Call("Get", key, r.ret, r.err)
    /\ UNCHANGED <<busVars, mu, now, procVars, reaperVars, tx, pre>>

\* Transaction.Get: the store's Get, when the transaction is active.
TxGet(key) ==
    /\ tx.made
    /\ IF ~tx.active
       THEN /\ last' = Call("Get", key, Nil, ErrTransactionNotActive)
            /\ UNCHANGED data
       ELSE LET r == Get(FALSE, data, now, key)
            IN  /\ data' = r.d
                /\ last' = Call("Get", key, r.ret, r.err)
    /\ UNCHANGED <<busVars, mu, now, procVars, reaperVars, tx, pre>>

\* Transaction.Commit: the commands in order; at the first error every
\* compensation runs; the deferred clear ends the transaction.
TxCommit ==
    /\ tx.made
    /\ IF ~tx.active
       THEN /\ last' = Call("Commit", "", Nil, ErrTransactionNotActive)
            /\ UNCHANGED <<tx, data, chanBuf>>
            /\ pre' = [pre EXCEPT !.ended = TRUE]
       ELSE LET run == RunCommands(tx.commands, 1, data, now, << >>)
                back == rollbackCommands(tx.rollback, run.d, now, run.pub)
            IN  /\ IF run.err # ErrNone
                   THEN /\ data' = back.d
                        /\ chanBuf' = DeliverAll(chanBuf, back.pub)
                        /\ last' = [Call("Commit", "", Nil, ErrTransactionFailed)
                                        EXCEPT !.pub = back.pub]
                   ELSE /\ data' = run.d
                        /\ chanBuf' = DeliverAll(chanBuf, run.pub)
                        /\ last' = [Call("Commit", "", Nil, ErrNone)
                                        EXCEPT !.pub = run.pub]
                /\ tx' = clear(tx)
                /\ pre' = [pre EXCEPT !.ended = TRUE, !.applied = run.applied,
                                      !.recorded = Len(tx.commands),
                                      !.cause = run.err,
                                      !.outcome = IF run.err # ErrNone THEN "failed"
                                                  ELSE "committed"]
    /\ UNCHANGED <<subscribers, closes, nextCh, panicked, offered, consumed, npub>>
    /\ UNCHANGED <<mu, now, procVars, reaperVars>>

\* Transaction.Rollback: nothing on a transaction that is not active; else every
\* compensation runs and the transaction ends.
TxRollback ==
    /\ tx.made
    /\ IF ~tx.active
       THEN /\ UNCHANGED <<tx, data, chanBuf>>
            /\ pre' = [pre EXCEPT !.ended = TRUE]
       ELSE LET back == rollbackCommands(tx.rollback, data, now, << >>)
            IN  /\ data' = back.d
                /\ chanBuf' = DeliverAll(chanBuf, back.pub)
                /\ tx' = clear(tx)
                /\ pre' = [pre EXCEPT !.ended = TRUE, !.recorded = Len(tx.commands),
                                      !.outcome = "rolled back"]
    /\ last' = Call("Rollback", "", Nil, ErrNone)
    /\ UNCHANGED <<subscribers, closes, nextCh, panicked, offered, consumed, npub>>
    /\ UNCHANGED <<mu, now, procVars, reaperVars>>

\* Another client calls db.Set(key, value, 0).
DBSet(key, value) ==
    /\ pre.writes < MaxWrites
    /\ LET r == Set(FALSE, data, now, key, value, 0)
       IN  /\ data' = r.d
           /\ chanBuf' = DeliverAll(chanBuf, r.pub)
    /\ last' = Call("DBSet", key, Nil, ErrNone)
    /\ pre' = [pre EXCEPT !.writes = @ + 1,
                          !.touched = @ \cup {key},
                          !.mutated = @ \/ (pre.named # {} /\ ~pre.ended),
                          !.alone = Set(FALSE, pre.alone, now, key, value, 0).d,
                          !.over = IF key \in pre.named /\ ~pre.ended
                                   THEN @ \cup {key} ELSE @]
    /\ UNCHANGED <<subscribers, closes, nextCh, panicked, offered, consumed, npub>>
    /\ UNCHANGED <<mu, now, procVars, reaperVars, tx>>

\* Another client calls db.Delete(key).
DBDelete(key) ==
    /\ pre.writes < MaxWrites
    /\ LET r == Delete(FALSE, data, now, key)
       IN  /\ data' = r.d
           /\ chanBuf' = DeliverAll(chanBuf, r.pub)
           /\ last' = Call("DBDelete", key, Nil, r.err)
    /\ pre' = [pre EXCEPT !.writes = @ + 1,
                          !.touched = @ \cup {key},
                          !.mutated = @ \/ (pre.named # {} /\ ~pre.ended),
                          !.alone = Delete(FALSE, pre.alone, now, key).d,
                          !.over = IF key \in pre.named /\ ~pre.ended
                                   THEN @ \cup {key} ELSE @]
    /\ UNCHANGED <<subscribers, closes, nextCh, panicked, offered, consumed, npub>>
    /\ UNCHANGED <<mu, now, procVars, reaperVars, tx>>

\* The bus after NewPubSub and one Subscribe(key).
Subscribed(key) ==
    /\ subscribers = MapPut(<< >>, key, {1})
    /\ chanBuf = [s \in Sinks |-> << >>]
    /\ closes = [s \in Sinks |-> 0]
    /\ nextCh = 2
    /\ panicked = NoPanic
    /\ offered = [s \in Sinks |-> << >>]
    /\ consumed = [s \in Sinks |-> FALSE]
    /\ npub = 0

\* NewTransaction on a store that holds some entries.
TxStart ==
    /\ \E ea \in {NoEntry, Entry(I64(1), String, 0),
                  Entry(I64(1), String, ttlSecondsToTime(1, TTL)),
                  Entry(Str(1), String, 0)},
          eb \in {NoEntry, Entry(Lst(1), List, 0)} :
          data = [k \in Keys |-> IF k = "a" THEN ea ELSE IF k = "b" THEN eb ELSE NoEntry]
    /\ mu = [i \in ShardIds |-> Unlocked]
    /\ now = 1
    /\ pc = [p \in Procs |-> "idle"]
    /\ loc = [p \in Procs |-> NoLocals]
    /\ hist = [p \in Procs |-> << >>]
    /\ ReaperIdle
    /\ tx = [made |-> TRUE, active |-> TRUE, commands |-> << >>, rollback |-> << >>]
    /\ last = NoCall
    /\ pre = Observed(data)

InitTx == NewPubSub /\ TxStart

\* The same on a store with a subscriber on key a.
InitTxSub == Subscribed("a") /\ TxStart

\* a call of one of the recording methods
RecordingCall ==
    \/ \E key \in TxKeys : TxSet(key, Str(2), 0)
    \/ TxSetNX("a", Str(2), 0)
    \/ TxIncr("a")
    \/ TxDelete("b")
    \/ TxRename("a", "b")

\* a call of one of the conditional writes, or of Set, on key a
ConditionalCall ==
    \/ TxSetNX("a", Str(2), 0)
    \/ TxSetXX("a", Str(2), 0)
    \/ TxSetCAS("a", I64(1), I64(2), 0)
    \/ TxSet("a", Str(2), 0)

NextTx ==
    \/ RecordingCall
    \/ TxGet("a")
    \/ TxCommit
    \/ TxRollback
    \/ DBSet("a", Str(3))
    \/ Tick

SpecTx == InitTx /\ [][NextTx]_vars

\* Every recording method, the transaction's end and the clock.
NextTxSub ==
    \/ Len(tx.commands) < MaxRecorded /\ RecordingCall
    \/ Len(tx.commands) < MaxRecorded /\ ConditionalCall
    \/ TxCommit
    \/ TxRollback
    \/ DBSet("a", Str(3))
    \/ Tick

SpecTxSub == InitTxSub /\ [][NextTxSub]_vars

\* Commit has just returned TransactionFailed, and no other client wrote to the
\* store between the first recorded operation and that return.
CommitFailedAlone ==
    last.op = "Commit" /\ last.err = ErrTransactionFailed /\ ~pre.mutated

\* C1 (as amended): when Commit fails with no other client writing between the
\* first recorded operation and the end of Commit, every key named by a
\* recorded operation has the entry (presence, kind, payload, expiration) it
\* had when the transaction recorded its first operation; and a Commit that
\* returns success has run every recorded command.
C1_FailedCommitRestoresRecordedState ==
    /\ CommitFailedAlone =>
          \A k \in pre.named : Visible(data, now)[k] = Visible(pre.first, now)[k]
    /\ (last.op = "Commit" /\ last.err = ErrNone) => pre.applied = pre.recorded

\* C1 (as stated): ... every key named by a recorded operation has the entry it
\* had before the transaction was created.
C1_FailedCommitRestoresCreationState ==
    /\ CommitFailedAlone =>
          \A k \in pre.named : Visible(data, now)[k] = Visible(pre.born, now)[k]
    /\ (last.op = "Commit" /\ last.err = ErrNone) => pre.applied = pre.recorded

\* A Commit failed after a command had changed a key that held an entry.
C1_RolledBackAfterProgress ==
    /\ CommitFailedAlone
    /\ pre.applied >= 1
    /\ \E k \in pre.named : exists(pre.first, k)

\* C8: the transaction is active from its construction until Commit or
\* Rollback is first called and never again; from then on Commit returns
\* TransactionNotActive, a recording method returns TransactionNotActive and
\* records nothing, and Rollback returns nil; none of them changes a store key.
C8_ActiveUntilFirstEnd ==
    /\ [](tx.made => (tx.active <=> ~pre.ended))
    /\ [][pre.ended =>
            /\ ~tx'.active
            /\ TxCommit => (last'.err = ErrTransactionNotActive /\ data' = data)
            /\ RecordingCall =>
                  (last'.err = ErrTransactionNotActive /\ tx' = tx /\ data' = data)
            /\ TxRollback => (last'.err = ErrNone /\ data' = data)]_vars

\* A Rollback called after a Commit that succeeded and changed the store.
C8_RollbackAfterCommit ==
    /\ pre.outcome = "committed"
    /\ pre.applied >= 1
    /\ last = Call("Rollback", "", Nil, ErrNone)

\* Get has just returned on the active transaction, which holds a buffered Set
\* of the same key.
GetAfterBufferedSet ==
    last.op = "Get" /\ tx.active /\ Buffered(tx.commands, last.key) # Nil

\* what Get returned on the store as it was when the transaction was made
PreTxAnswer(key) ==
    IF exists(pre.born, key) THEN <<pre.born[key].Value, ErrNone>>
    ELSE <<Nil, ErrKeyNotFound>>

C10_GetSeesBufferedSet ==
    GetAfterBufferedSet =>
        (last.err = ErrNone /\ last.ret = Buffered(tx.commands, last.key))

\* C11: recording a mutating operation on an active transaction changes no
\* key's visible entry and delivers nothing to any subscriber, and as long as
\* the transaction has not been ended every key reads as it would had the
\* transaction never been made (the other client's calls applied alone).
C11_RecordingLeavesStoreAlone ==
    /\ [](tx.active => Visible(data, now) = Visible(pre.alone, now))
    /\ [][RecordingCall => /\ Visible(data', now') = Visible(data, now)
                           /\ chanBuf' = chanBuf]_vars

\* a Set on the subscribed key is buffered in a transaction still active, and
\* the subscriber's channel is empty
C11_BufferedSetUnseen ==
    /\ tx.active
    /\ \E i \in 1..Len(tx.commands) : tx.commands[i].op = "Set" /\ tx.commands[i].key = "a"
    /\ "a" \in DOMAIN subscribers
    /\ \A s \in subscribers["a"] : chanBuf[s] = << >>

(***************************************************************************)
(* A transaction of conditional writes on one key, with another client     *)
(* that sets or deletes the key.                                           *)
(***************************************************************************)
NextTxCond ==
    \/ ConditionalCall
    \/ TxCommit
    \/ TxRollback
    \/ DBSet("a", Str(3))
    \/ DBDelete("a")
    \/ Tick

SpecTxCond == InitTx /\ [][NextTxCond]_vars

\* The condition of the conditional write c does not hold on the maps d at
\* instant t: NX on a present key, XX on an absent key, CAS on a present key
\* with another value.
ConditionFails(c, d, t) ==
    \/ c.op = "SetNX" /\ Visible(d, t)[c.key] # NoEntry
    \/ c.op = "SetXX" /\ ~exists(d, c.key)
    \/ c.op = "SetCAS" /\ Visible(d, t)[c.key] # NoEntry /\ d[c.key].Value # c.old

\* What the snapshots of the closures recorded say a key held when the
\* transaction first named it (no entry for a key it never named).
RECURSIVE FirstSnap(_, _)
FirstSnap(rollback, k) ==
    IF rollback = << >> THEN NoEntry
    ELSE LET mine == {i \in 1..Len(Head(rollback)) : Head(rollback)[i].key = k}
         IN  IF mine = {} THEN FirstSnap(Tail(rollback), k)
             ELSE LET snap == Head(rollback)[CHOOSE i \in mine : \A j \in mine : i <= j]
                  IN  IF snap.existed THEN snap.entry ELSE NoEntry

C13_RollbackOverwritesLaterWrite ==
    [][(TxCommit /\ last'.err = ErrTransactionFailed)
       => \A k \in pre.over :
             Visible(data', now')[k] = Visible([x \in Keys |-> FirstSnap(tx.rollback, x)], now')[k]]_vars

\* a Commit has failed and the value another client had written to key a,
\* after the transaction had recorded an operation on a, is no longer there
C13_LaterWriteLost ==
    /\ last.op = "Commit" /\ last.err = ErrTransactionFailed
    /\ "a" \in pre.over
    /\ pre.alone["a"] = Entry(Str(3), String, 0)
    /\ data["a"] # pre.alone["a"]




(***************************************************************************)
(* Transactions run concurrently: Workers goroutines, Iterations           *)
(* transactions each; a transaction is db.Transaction(), tx.Incr on        *)
(* IncrKey, tx.Commit().  Commit runs the one command, db.Incr, which is a *)
(* lock acquisition, the read of the entry, and the write with the         *)
(* deferred Unlock; when the command fails the compensation runs.          *)
(***************************************************************************)
\* db.Transaction() and tx.Incr(ctx, key): the snapshot, the two appends.
WorkerBegin(p) ==
    /\ pc[p] = "idle"
    /\ Len(hist[p]) < Iterations
    /\ CanRLock(mu[ShardOf[IncrKey]])
    /\ loc' = [loc EXCEPT ![p] = [op |-> "TxIncr", key |-> IncrKey,
                                  snap |-> getRawEntryOrNil(data, now, IncrKey),
                                  entry |-> NoEntry]]
    /\ pc' = [pc EXCEPT ![p] = "txLock"]
    /\ UNCHANGED <<busVars, storeVars, hist, reaperVars, txVars>>

\* tx.Commit() up to sh.mu.Lock() in db.Incr
WorkerLock(p) ==
    /\ pc[p] = "txLock"
    /\ CanLock(mu[ShardOf[loc[p].key]])
    /\ mu' = [mu EXCEPT ![ShardOf[loc[p].key]] = [w |-> p, r |-> {}]]
    /\ pc' = [pc EXCEPT ![p] = "txRead"]
    /\ UNCHANGED <<busVars, data, now, loc, hist, reaperVars, txVars>>

\* entry, exists := sh.data[key]
WorkerRead(p) ==
    /\ pc[p] = "txRead"
    /\ loc' = [loc EXCEPT ![p].entry = data[loc[p].key]]
    /\ pc' = [pc EXCEPT ![p] = "txWrite"]
    /\ UNCHANGED <<busVars, storeVars, hist, reaperVars, txVars>>

\* the rest of db.Incr on the entry read, and the deferred Unlock; Commit
\* returns nil when the command succeeded.
WorkerWrite(p) ==
    /\ pc[p] = "txWrite"
    /\ LET key == loc[p].key
           r == Incr(FALSE, [data EXCEPT ![key] = loc[p].entry], now, key)
       IN  /\ data' = [data EXCEPT ![key] = r.d[key]]
           /\ IF r.err = ErrNone
              THEN /\ hist' = [hist EXCEPT ![p] = Append(@, [ret |-> Nil, err |-> ErrNone])]
                   /\ pc' = [pc EXCEPT ![p] = "idle"]
                   /\ loc' = [loc EXCEPT ![p] = NoLocals]
              ELSE /\ pc' = [pc EXCEPT ![p] = "txUndo"]
                   /\ UNCHANGED <<loc, hist>>
    /\ mu' = [mu EXCEPT ![ShardOf[loc[p].key]] = Unlocked]
    /\ UNCHANGED <<busVars, now, reaperVars, txVars>>

\* rollbackCommands after the command failed; Commit returns TransactionFailed.
WorkerUndo(p) ==
    /\ pc[p] = "txUndo"
    /\ CanLock(mu[ShardOf[loc[p].key]])
    /\ data' = Undo(loc[p].snap, data, now).d
    /\ chanBuf' = DeliverAll(chanBuf, Undo(loc[p].snap, data, now).pub)
    /\ hist' = [hist EXCEPT ![p] = Append(@, [ret |-> Nil, err |-> ErrTransactionFailed])]
    /\ pc' = [pc EXCEPT ![p] = "idle"]
    /\ loc' = [loc EXCEPT ![p] = NoLocals]
    /\ UNCHANGED <<subscribers, closes, nextCh, panicked, offered, consumed, npub>>
    /\ UNCHANGED <<mu, now, reaperVars, txVars>>

\* db.Set(ctx, IncrKey, v, 0) before the workers start
InitTxIncr ==
    /\ NewPubSub
    /\ \E v \in {I64(0), I64(5), Str(1)} :
          data = [k \in Keys |-> IF k = IncrKey THEN Entry(v, String, 0) ELSE NoEntry]
    /\ mu = [i \in ShardIds |-> Unlocked]
    /\ now = 1
    /\ pc = [p \in Procs |-> "idle"]
    /\ loc = [p \in Procs |-> NoLocals]
    /\ hist = [p \in Procs |-> << >>]
    /\ ReaperIdle
    /\ tx = NoTx
    /\ last = NoCall
    /\ pre = Observed(data)

NextTxIncr ==
    \/ \E p \in Procs : WorkerBegin(p)
    \/ \E p \in Procs : WorkerLock(p)
    \/ \E p \in Procs : WorkerRead(p)
    \/ \E p \in Procs : WorkerWrite(p)
    \/ \E p \in Procs : WorkerUndo(p)

SpecTxIncr == InitTxIncr /\ [][NextTxIncr]_vars

\* C7: Workers goroutines each committing Iterations transactions of one Incr
\* on the same integer key: every Commit returns nil, the key holds its initial
\* value plus the number of transactions committed so far, and at the end its
\* initial value plus Workers * Iterations.
C7_TxIncrLosesNoIncrement ==
    pre.born[IncrKey].Value.t = "int64" =>
        /\ \A c \in IncrCalls : hist[c[1]][c[2]].err = ErrNone
        /\ data[IncrKey] =
              Entry(I64(pre.born[IncrKey].Value.v + Cardinality(IncrCalls)), String, 0)
        /\ IncrAllDone =>
              data[IncrKey].Value = I64(pre.born[IncrKey].Value.v + (Workers * Iterations))

\* Every transaction of every worker has committed, on an integer key.
C7_AllTxDone ==
    pre.born[IncrKey].Value.t = "int64" /\ IncrAllDone /\ Workers > 1 /\ Iterations > 1


(***************************************************************************)
(* One client calling the store's operations, one call at a time.          *)
(***************************************************************************)
\* What a call leaves behind: the maps, the notifications, the call's answer.
StoreCall(op, key, key2, r) ==
    /\ data' = r.d
    /\ chanBuf' = DeliverAll(chanBuf, r.pub)
    /\ last' = [Call2(op, key, key2, r.ret, r.err) EXCEPT !.pub = r.pub]
    /\ UNCHANGED <<subscribers, closes, nextCh, panicked, offered, consumed, npub>>
    /\ UNCHANGED <<mu, now, procVars, reaperVars, tx, pre>>

CallSet(ctxDone, key, value, ttl) ==
    /\ CanLock(mu[ShardOf[key]])
    /\ StoreCall("Set", key, "", Set(ctxDone, data, now, key, value, ttl))

CallSetNX(ctxDone, key, value, ttl) ==
    /\ CanLock(mu[ShardOf[key]])
    /\ StoreCall("SetNX", key, "", SetNX(ctxDone, data, now, key, value, ttl))

CallSetXX(ctxDone, key, value, ttl) ==
    /\ CanLock(mu[ShardOf[key]])
    /\ StoreCall("SetXX", key, "", SetXX(ctxDone, data, now, key, value, ttl))

CallGet(ctxDone, key) ==
    /\ CanLock(mu[ShardOf[key]])
    /\ StoreCall("Get", key, "", Get(ctxDone, data, now, key))

CallDelete(ctxDone, key) ==
    /\ CanLock(mu[ShardOf[key]])
    /\ StoreCall("Delete", key, "", Delete(ctxDone, data, now, key))

CallRename(ctxDone, oldKey, newKey) ==
    /\ CanLock(mu[ShardOf[oldKey]])
    /\ CanLock(mu[ShardOf[newKey]])
    /\ StoreCall("Rename", oldKey, newKey, Rename(ctxDone, data, now, oldKey, newKey))

CallHSet(ctxDone, key, field, value, ttl) ==
    /\ CanLock(mu[ShardOf[key]])
    /\ StoreCall("HSet", key, "", HSet(ctxDone, data, now, key, field, value, ttl))

CallSetCAS(ctxDone, key, oldValue, newValue, ttl) ==
    /\ CanLock(mu[ShardOf[key]])
    /\ StoreCall("SetCAS", key, "", SetCAS(ctxDone, data, now, key, oldValue, newValue, ttl))

CallGetSet(ctxDone, key, newValue, ttl) ==
    /\ CanLock(mu[ShardOf[key]])
    /\ StoreCall("GetSet", key, "", GetSet(ctxDone, data, now, key, newValue, ttl))

CallIncr(ctxDone, key) ==
    /\ CanLock(mu[ShardOf[key]])
    /\ StoreCall("Incr", key, "", Incr(ctxDone, data, now, key))

CallDecr(ctxDone, key) ==
    /\ CanLock(mu[ShardOf[key]])
    /\ StoreCall("Decr", key, "", Decr(ctxDone, data, now, key))

CallIncrBy(ctxDone, key, increment) ==
    /\ CanLock(mu[ShardOf[key]])
    /\ StoreCall("IncrBy", key, "", IncrBy(ctxDone, data, now, key, increment))

CallDecrBy(ctxDone, key, decrement) ==
    /\ CanLock(mu[ShardOf[key]])
    /\ StoreCall("DecrBy", key, "", DecrBy(ctxDone, data, now, key, decrement))

CallLPush(ctxDone, key, values) ==
    /\ CanLock(mu[ShardOf[key]])
    /\ StoreCall("LPush", key, "", LPush(ctxDone, data, now, key, values))

CallRPush(ctxDone, key, values) ==
    /\ CanLock(mu[ShardOf[key]])
    /\ StoreCall("RPush", key, "", RPush(ctxDone, data, now, key, values))

CallLPop(ctxDone, key) ==
    /\ CanLock(mu[ShardOf[key]])
    /\ StoreCall("LPop", key, "", LPop(ctxDone, data, now, key))

CallRPop(ctxDone, key) ==
    /\ CanLock(mu[ShardOf[key]])
    /\ StoreCall("RPop", key, "", RPop(ctxDone, data, now, key))

CallLLen(ctxDone, key) ==
    /\ CanRLock(mu[ShardOf[key]])
    /\ StoreCall("LLen", key, "", LLen(ctxDone, data, now, key))

CallLRange(ctxDone, key, start, end) ==
    /\ CanRLock(mu[ShardOf[key]])
    /\ StoreCall("LRange", key, "", LRange(ctxDone, data, now, key, start, end))

CallHGet(ctxDone, key, field) ==
    /\ CanRLock(mu[ShardOf[key]])
    /\ StoreCall("HGet", key, "", HGet(ctxDone, data, now, key, field))

CallHDel(ctxDone, key, field) ==
    /\ CanLock(mu[ShardOf[key]])
    /\ StoreCall("HDel", key, "", HDel(ctxDone, data, now, key, field))

CallHGetAll(ctxDone, key) ==
    /\ CanRLock(mu[ShardOf[key]])
    /\ StoreCall("HGetAll", key, "", HGetAll(ctxDone, data, now, key))

CallHExists(ctxDone, key, field) ==
    /\ CanRLock(mu[ShardOf[key]])
    /\ StoreCall("HExists", key, "", HExists(ctxDone, data, now, key, field))

CallHLen(ctxDone, key) ==
    /\ CanRLock(mu[ShardOf[key]])
    /\ StoreCall("HLen", key, "", HLen(ctxDone, data, now, key))

CallExists(ctxDone, key) ==
    /\ CanRLock(mu[ShardOf[key]])
    /\ StoreCall("Exists", key, "", Exists(ctxDone, data, now, key))

CallExpire(ctxDone, key, ttl) ==
    /\ CanLock(mu[ShardOf[key]])
    /\ StoreCall("Expire", key, "", Expire(ctxDone, data, now, key, ttl))

CallPersist(ctxDone, key) ==
    /\ CanLock(mu[ShardOf[key]])
    /\ StoreCall("Persist", key, "", Persist(ctxDone, data, now, key))

CallType(ctxDone, key) ==
    /\ CanRLock(mu[ShardOf[key]])
    /\ StoreCall("Type", key, "", Type(ctxDone, data, now, key))

CallGetWithDetails(ctxDone, key) ==
    /\ CanRLock(mu[ShardOf[key]])
    /\ StoreCall("GetWithDetails", key, "", GetWithDetails(ctxDone, data, now, key))

CallGetRawEntry(ctxDone, key) ==
    /\ CanRLock(mu[ShardOf[key]])
    /\ StoreCall("GetRawEntry", key, "", GetRawEntry(ctxDone, data, now, key))

CallRestoreRawEntry(ctxDone, key, entry) ==
    /\ CanLock(mu[ShardOf[key]])
    /\ StoreCall("RestoreRawEntry", key, "", RestoreRawEntry(ctxDone, data, now, key, entry))

\* FindByValue and DropAll visit every shard in turn.
CallFindByValue(ctxDone, value) ==
    /\ \A i \in ShardIds : CanRLock(mu[i])
    /\ StoreCall("FindByValue", "", "", FindByValue(ctxDone, data, now, value))

CallDropAll(ctxDone, order) ==
    /\ \A i \in ShardIds : CanLock(mu[i])
    /\ StoreCall("DropAll", "", "", DropAll(ctxDone, data, now, order))

\* the keys the client uses: two of them share a shard
StoreKeys == {"a", "b", "c"}

\* NewStore: empty shards, free locks.
StoreStart ==
    /\ data = [k \in Keys |-> NoEntry]
    /\ mu = [i \in ShardIds |-> Unlocked]
    /\ now = 1
    /\ pc = [p \in Procs |-> "idle"]
    /\ loc = [p \in Procs |-> NoLocals]
    /\ hist = [p \in Procs |-> << >>]
    /\ ReaperIdle
    /\ TxIdle

\* a new store, with no subscriber
InitStore == NewPubSub /\ StoreStart

\* Strings with and without TTL, a hash, the NX/XX gates, Rename, the clock.
NextStore ==
    \/ \E key \in {"a", "b"}, ttl \in {0, TTL} : CallSet(FALSE, key, Str(1), ttl)
    \/ CallSetNX(FALSE, "a", Str(2), 0)
    \/ CallSetXX(FALSE, "a", Str(2), 0)
    \/ CallHSet(FALSE, "a", "f", 1, TTL)
    \/ CallGet(FALSE, "a")
    \/ CallDelete(FALSE, "b")
    \/ \E oldKey \in StoreKeys, newKey \in StoreKeys : CallRename(FALSE, oldKey, newKey)
    \/ Tick

SpecStore == InitStore /\ [][NextStore]_vars

\* C14: the NX and XX gates treat an entry that has expired but is still in
\* its shard's map as absent: SetNX on such a key returns true and stores the
\* new value, SetXX on it returns (false, KeyNotFound) and stores nothing.
C14_GatesTreatExpiredAsAbsent ==
    [][\A k \in StoreKeys :
          (exists(data, k) /\ isExpired(data[k], now)) =>
             /\ CallSetNX(FALSE, k, Str(2), 0) =>
                   (last'.ret = Bool(TRUE) /\ last'.err = ErrNone /\ data'[k].Value = Str(2))
             /\ CallSetXX(FALSE, k, Str(2), 0) =>
                   (last'.ret = Bool(FALSE) /\ last'.err = ErrKeyNotFound /\ data' = data)]_vars

\* C15: a Rename(a, b) with a present and unexpired and no slot under b
\* succeeds, leaves no slot under a and puts under b the entry a held (kind,
\* payload and expiration), whether or not the two keys share a shard; a
\* Rename(k, k) succeeds and changes nothing; a Rename that returns
\* KeyNotFound or KeyExists changes no key.
C15_RenameMovesTheEntry ==
    [][\A a \in StoreKeys, b \in StoreKeys :
          CallRename(FALSE, a, b) =>
             /\ (a # b /\ exists(data, a) /\ ~isExpired(data[a], now) /\ ~exists(data, b)) =>
                   /\ last'.err = ErrNone
                   /\ data'[a] = NoEntry
                   /\ data'[b] = data[a]
                   /\ \A k \in Keys \ {a, b} : data'[k] = data[k]
             /\ a = b => (last'.err = ErrNone /\ data' = data)
             /\ last'.err \in {ErrKeyNotFound, ErrKeyExists} => data' = data]_vars

\* a hash with an expiration has just been moved to a key of another shard
C15_HashMovedAcrossShards ==
    /\ last.op = "Rename" /\ last.err = ErrNone /\ last.key # last.key2
    /\ ShardOf[last.key] # ShardOf[last.key2]
    /\ data[last.key] = NoEntry
    /\ data[last.key2].Type = Hash
    /\ data[last.key2].Expiration # 0

\* C16: Rename(a, b) fails with KeyExists only if b holds an entry that has
\* not expired; when b's entry has expired and is still in the map, Rename
\* succeeds and b then holds a's entry.
C16_RenameOverExpiredTarget ==
    [][\A a \in StoreKeys, b \in StoreKeys :
          CallRename(FALSE, a, b) =>
             /\ last'.err = ErrKeyExists => (exists(data, b) /\ ~isExpired(data[b], now))
             /\ (a # b /\ exists(data, a) /\ ~isExpired(data[a], now)
                   /\ exists(data, b) /\ isExpired(data[b], now)) =>
                   (last'.err = ErrNone /\ data'[b] = data[a])]_vars

(***************************************************************************)
(* Lists, hashes and strings under the same keys.                          *)
(***************************************************************************)
\* elements a list may hold
MaxLen == 2

\* the value a counter is taken to
MaxCount == 2

KindKeys == {"a", "b"}
HashFields == {"f", "g"}

\* the list under key has room for n more elements
Room(key, n) ==
    (exists(data, key) /\ data[key].Type = List) => Len(data[key].Value.xs) + n <= MaxLen

NextKinds ==
    \/ \E key \in KindKeys, x \in 1..2 : Room(key, 1) /\ CallRPush(FALSE, key, <<x>>)
    \/ Room("a", 2) /\ CallLPush(FALSE, "a", <<1, 2>>)
    \/ \E key \in KindKeys : CallLPop(FALSE, key)
    \/ \E key \in KindKeys : CallRPop(FALSE, key)
    \/ \E field \in HashFields, ttl \in {0, TTL} : CallHSet(FALSE, "a", field, 1, ttl)
    \/ \E field \in HashFields : CallHDel(FALSE, "a", field)
    \/ CallSet(FALSE, "a", Str(1), 0)
    \/ CallSetXX(FALSE, "a", Str(2), 0)
    \/ CallGetSet(FALSE, "a", Str(1), 0)
    \/ CallSetCAS(FALSE, "a", Str(1), Str(2), 0)
    \/ (data["a"].Value.t = "int64" => data["a"].Value.v < MaxCount) /\ CallIncr(FALSE, "a")
    \/ CallExpire(FALSE, "b", TTL)
    \/ CallRename(FALSE, "b", "a")
    \/ Tick

SpecKinds == InitStore /\ [][NextKinds]_vars

\* C17: the kind of the entry under a key does not change while the key
\* stays present: no step takes a key that holds an unexpired entry to an
\* entry of another kind; so Set, SetXX and GetSet on a key that holds a list
\* or a hash leave it a list or a hash.
C17_KindIsFixed ==
    [][\A k \in Keys :
          (exists(data, k) /\ ~isExpired(data[k], now) /\ exists(data', k))
             => data'[k].Type = data[k].Type]_vars

\* C18: no key holds an empty list or an empty hash, and the LPop, RPop or
\* HDel that removes the last element or field removes the key in that step.
C18_NoEmptyContainer ==
    /\ [](\A k \in Keys :
             /\ data[k].Type = List => data[k].Value.xs # << >>
             /\ data[k].Type = Hash => data[k].Value.h # {})
    /\ [][\A k \in KindKeys :
             (exists(data, k) /\ ~isExpired(data[k], now)) =>
                /\ (data[k].Type = List /\ Len(data[k].Value.xs) = 1
                      /\ (CallLPop(FALSE, k) \/ CallRPop(FALSE, k)))
                   => data'[k] = NoEntry
                /\ \A field \in HashFields :
                      (data[k].Type = Hash /\ Fields(data[k].Value.h) = {field}
                         /\ CallHDel(FALSE, k, field))
                      => data'[k] = NoEntry]_vars

\* the last element of a list has just been popped and the key is gone
C18_LastElementPopped ==
    /\ last.op \in {"LPop", "RPop"}
    /\ last.err = ErrNone
    /\ data[last.key] = NoEntry

(***************************************************************************)
(* Keys stored with a TTL and read by every read operation.                *)
(***************************************************************************)
ReadKeys == {"a", "b"}

\* a call of one of the read operations on key
ReadCall(key) ==
    \/ CallGet(FALSE, key)
    \/ CallExists(FALSE, key)
    \/ CallType(FALSE, key)
    \/ CallGetWithDetails(FALSE, key)
    \/ CallLLen(FALSE, key)
    \/ CallLRange(FALSE, key, 0, 0 - 1)
    \/ CallHGet(FALSE, key, "f")
    \/ CallHGetAll(FALSE, key)
    \/ CallHExists(FALSE, key, "f")
    \/ CallHLen(FALSE, key)

NextReads ==
    \/ \E key \in ReadKeys : CallSet(FALSE, key, Str(1), TTL)
    \/ \E key \in ReadKeys : ReadCall(key)
    \/ \E value \in {Str(1), Str(2)} : CallFindByValue(FALSE, value)
    \/ Tick

SpecReads == InitStore /\ [][NextReads]_vars

\* the expiration instant of entry e is set and lies before instant t
Lapsed(e, t) == e.Expiration # 0 /\ t > e.Expiration

\* the answer c of a read reports no entry
ReportsNothing(c) ==
    IF c.op = "Exists" THEN c.ret = Bool(FALSE) /\ c.err = ErrNone
    ELSE /\ c.err \in {ErrKeyNotFound, ErrKeyExpired}
         /\ c.ret \in {Nil, GoInt(0), GoInt(0 - 1), Bool(FALSE)}

\* C19: a key stored by Set(k, v, t) with t > 0 and not written again reads
\* as v through Get until its expiration instant, and once that instant has
\* passed no read operation returns or reports the entry, whether the slot is
\* still in the shard's map or has been removed.
C19_ExpiredEntryUnseen ==
    [][\A k \in ReadKeys :
          /\ (data[k] # NoEntry /\ ~Lapsed(data[k], now) /\ CallGet(FALSE, k))
                => (last'.ret = Str(1) /\ last'.err = ErrNone)
          /\ ((data[k] = NoEntry \/ Lapsed(data[k], now)) /\ ReadCall(k))
                => ReportsNothing(last')
          /\ ((data[k] = NoEntry \/ Lapsed(data[k], now))
                /\ \E value \in {Str(1), Str(2)} : CallFindByValue(FALSE, value))
                => <<k, 0>> \notin last'.ret.h]_vars

\* a read has just reported nothing for a key whose expired entry is still in
\* the shard's map
C19_ExpiredSlotReadAsAbsent ==
    /\ last.op \in {"Exists", "Type", "GetWithDetails", "LLen", "HLen"}
    /\ ReportsNothing(last)
    /\ data[last.key] # NoEntry
    /\ Lapsed(data[last.key], now)

(***************************************************************************)
(* Calls made with a context that is already cancelled, on a store that     *)
(* holds a string, a list and a hash and has a subscriber.                 *)
(***************************************************************************)
InitCancel == Subscribed("a") /\ StoreStart

\* a holds a string when it holds anything, b a list or a hash
CancelKeys == {"a", "b"}

\* a call of one of the store's operations with a cancelled context
CancelledCall ==
    \/ \E key \in CancelKeys :
          \/ CallSet(TRUE, key, Str(2), 0)
          \/ CallSetNX(TRUE, key, Str(2), 0)
          \/ CallSetXX(TRUE, key, Str(2), 0)
          \/ CallGet(TRUE, key)
          \/ CallSetCAS(TRUE, key, Str(1), Str(2), 0)
          \/ CallGetSet(TRUE, key, Str(2), 0)
          \/ CallIncr(TRUE, key)
          \/ CallDecr(TRUE, key)
          \/ CallIncrBy(TRUE, key, 2)
          \/ CallDecrBy(TRUE, key, 2)
          \/ CallDelete(TRUE, key)
    \/ \E key \in CancelKeys :
          \/ CallLPush(TRUE, key, <<1>>)
          \/ CallRPush(TRUE, key, <<1>>)
          \/ CallLPop(TRUE, key)
          \/ CallRPop(TRUE, key)
          \/ CallLLen(TRUE, key)
          \/ CallLRange(TRUE, key, 0, 0 - 1)
          \/ CallHSet(TRUE, key, "f", 1, 0)
          \/ CallHGet(TRUE, key, "f")
          \/ CallHDel(TRUE, key, "f")
          \/ CallHGetAll(TRUE, key)
          \/ CallHExists(TRUE, key, "f")
          \/ CallHLen(TRUE, key)
    \/ \E key \in CancelKeys :
          \/ CallExists(TRUE, key)
          \/ CallExpire(TRUE, key, TTL)
          \/ CallPersist(TRUE, key)
          \/ CallType(TRUE, key)
          \/ CallGetWithDetails(TRUE, key)
          \/ CallGetRawEntry(TRUE, key)
          \/ CallRestoreRawEntry(TRUE, key, Entry(Str(2), String, 0))
          \/ \E newKey \in CancelKeys : CallRename(TRUE, key, newKey)
    \/ CallFindByValue(TRUE, Str(1))
    \/ \E order \in Orders({k \in Keys : exists(data, k)}) : CallDropAll(TRUE, order)

NextCancel ==
    \/ CallSet(FALSE, "a", Str(1), TTL)
    \/ Room("b", 1) /\ CallRPush(FALSE, "b", <<1>>)
    \/ CallHSet(FALSE, "b", "f", 1, 0)
    \/ Receive(1)
    \/ CancelledCall
    \/ Tick

SpecCancel == InitCancel /\ [][NextCancel]_vars

\* C20: a store operation called with a context that is already cancelled
\* returns ContextCanceled and has no side effect: no shard map changes and
\* nothing is published.
C20_CancelledCallDoesNothing ==
    [][\/ /\ last'.err = ErrContextCanceled
          /\ data' = data
          /\ chanBuf' = chanBuf
       \/ ~CancelledCall]_vars

\* a cancelled Delete has just returned, on a key that holds an entry and has
\* a subscriber whose channel is empty
C20_CancelledDeleteOfPresentKey ==
    /\ last.op = "Delete" /\ last.err = ErrContextCanceled
    /\ exists(data, last.key)
    /\ last.key \in DOMAIN subscribers
    /\ \A s \in subscribers[last.key] : chanBuf[s] = << >>

(***************************************************************************)
(* DB.SetCAS called concurrently: one call per goroutine, all on CasKey    *)
(* and all with the old value CasOld.  A call is its argument checks, the  *)
(* lock acquisition, the read of the entry, and the rest with the deferred *)
(* Unlock.  The key starts absent, or with a payload that matches or not,  *)
(* with or without an expiration; time passes.                             *)
(***************************************************************************)
CasKey == "a"
CasOld == I64(1)

\* SetCAS up to sh.mu.Lock(): the context and the TTL are checked.  seen is
\* what the store showed under the key when the call was made (an observer).
CasCall(p, newValue, ttl) ==
    /\ pc[p] = "idle"
    /\ hist[p] = << >>
    /\ UNCHANGED <<reaperVars, txVars>>
    /\ pc' = [pc EXCEPT ![p] = "lock"]
    /\ loc' = [loc EXCEPT ![p] = [op |-> "SetCAS", key |-> CasKey, oldValue |-> CasOld,
                                  newValue |-> newValue, ttl |-> ttl,
                                  entry |-> NoEntry, seen |-> Visible(data, now)[CasKey]]]
    /\ UNCHANGED <<busVars, storeVars, hist>>

\* sh.mu.Lock()
CasLock(p) ==
    /\ pc[p] = "lock"
    /\ UNCHANGED <<reaperVars, txVars>>
    /\ CanLock(mu[ShardOf[loc[p].key]])
    /\ mu' = [mu EXCEPT ![ShardOf[loc[p].key]] = [w |-> p, r |-> {}]]
    /\ pc' = [pc EXCEPT ![p] = "read"]
    /\ UNCHANGED <<busVars, data, now, loc, hist>>

\* entry, exists := sh.data[key]
CasRead(p) ==
    /\ pc[p] = "read"
    /\ UNCHANGED <<reaperVars, txVars>>
    /\ loc' = [loc EXCEPT ![p].entry = data[loc[p].key]]
    /\ pc' = [pc EXCEPT ![p] = "write"]
    /\ UNCHANGED <<busVars, storeVars, hist>>

\* the rest of SetCAS on the entry read: the expiry test, the comparison, the
\* store of the new entry, the notification, and the deferred Unlock.  The
\* history keeps the answer and the entry the call had read.
CasWrite(p) ==
    /\ pc[p] = "write"
    /\ UNCHANGED <<reaperVars, txVars>>
    /\ LET key == loc[p].key
           r == SetCAS(FALSE, [data EXCEPT ![key] = loc[p].entry], now, key,
                       loc[p].oldValue, loc[p].newValue, loc[p].ttl)
       IN  /\ data' = [data EXCEPT ![key] = r.d[key]]
           /\ chanBuf' = DeliverAll(chanBuf, r.pub)
           /\ hist' = [hist EXCEPT ![p] =
                 Append(@, [ret |-> r.ret, err |-> r.err, entry |-> loc[p].entry,
                            newValue |-> loc[p].newValue, ttl |-> loc[p].ttl,
                            seen |-> loc[p].seen])]
    /\ mu' = [mu EXCEPT ![ShardOf[loc[p].key]] = Unlocked]
    /\ pc' = [pc EXCEPT ![p] = "idle"]
    /\ loc' = [loc EXCEPT ![p] = NoLocals]
    /\ UNCHANGED <<subscribers, closes, nextCh, panicked, offered, consumed, npub, now>>

InitCas ==
    /\ Subscribed(CasKey)
    /\ ReaperIdle
    /\ \E e \in {NoEntry} \cup {Entry(I64(n), String, x) : n \in 1..2, x \in {0, 1 + TTL}} :
          data = [k \in Keys |-> IF k = CasKey THEN e ELSE NoEntry]
    /\ tx = NoTx
    /\ last = NoCall
    /\ pre = Observed(data)
    /\ mu = [i \in ShardIds |-> Unlocked]
    /\ now = 1
    /\ pc = [p \in Procs |-> "idle"]
    /\ loc = [p \in Procs |-> NoLocals]
    /\ hist = [p \in Procs |-> << >>]

NextCas ==
    \/ \E p \in Procs, n \in 2..3, ttl \in {0, TTL} : CasCall(p, I64(n), ttl)
    \/ \E p \in Procs : CasLock(p)
    \/ \E p \in Procs : CasRead(p)
    \/ \E p \in Procs : CasWrite(p)
    \/ Tick

SpecCas == InitCas /\ [][NextCas]_vars

\* the goroutines whose SetCAS has returned, and those that found the key
\* present and unexpired
CasDone == {p \in Procs : hist[p] # << >>}
CasFoundLive == {p \in CasDone : hist[p][1].err # ErrKeyNotFound}

\* C21: SetCAS replaces the payload only if the key is present, unexpired and
\* holds old (and then stores new with the kind kept and the new TTL); when it
\* returns ValueMismatch or KeyNotFound the store shows the same payload and
\* expiration under the key as before; and of the concurrent calls with the
\* same old value that find the key alive, exactly one succeeds and every
\* other one returns ValueMismatch.
C21_SetCASIsAtomic ==
    /\ [][\A p \in Procs :
             CasWrite(p) =>
                LET e == data[CasKey]
                    live == exists(data, CasKey) /\ ~isExpired(e, now)
                    c == hist'[p][1]
                IN  /\ c.err = ErrNone <=> (live /\ e.Value = CasOld)
                    /\ c.err = ErrNone =>
                          data'[CasKey] = Entry(c.newValue, e.Type, ttlSecondsToTime(now, c.ttl))
                    /\ (live /\ e.Value # CasOld) => c.err = ErrValueMismatch
                    /\ ~live => c.err = ErrKeyNotFound
                    /\ c.err \in {ErrValueMismatch, ErrKeyNotFound} =>
                          Visible(data', now')[CasKey] = Visible(data, now)[CasKey]]_vars
    /\ [](\A p \in CasFoundLive :
             /\ hist[p][1].err \in {ErrNone, ErrValueMismatch}
             /\ hist[p][1].entry.Value = CasOld <=> hist[p][1].err = ErrNone
             /\ \A q \in CasFoundLive :
                   (hist[p][1].err = ErrNone /\ hist[q][1].err = ErrNone) => p = q)
    /\ []((pre.born[CasKey].Value = CasOld /\ CasFoundLive # {}) =>
             \E p \in CasFoundLive : hist[p][1].err = ErrNone)

\* two calls ran at the same time: both were made while the key held old,
\* with different new values; one succeeded and the other got ValueMismatch
C21_TwoCallsRaced ==
    \E p, q \in CasDone :
        /\ hist[p][1].err = ErrNone
        /\ hist[q][1].err = ErrValueMismatch
        /\ hist[q][1].entry.Value = hist[p][1].newValue
        /\ hist[q][1].newValue # hist[p][1].newValue
        /\ hist[p][1].seen.Value = CasOld
        /\ hist[q][1].seen.Value = CasOld

(***************************************************************************)
(* Expire on keys that are absent, present with and without an expiration, *)
(* and expired but still in their shard's map.                             *)
(***************************************************************************)
ExpireKeys == {"a", "b"}

NextExpire ==
    \/ \E ttl \in {0, TTL} : CallSet(FALSE, "a", Str(1), ttl)
    \/ CallHSet(FALSE, "b", "f", 1, TTL)
    \/ \E key \in ExpireKeys, ttl \in {0, TTL, TTL + 1} : CallExpire(FALSE, key, ttl)
    \/ \E key \in ExpireKeys : CallPersist(FALSE, key)
    \/ \E key \in ExpireKeys : CallDelete(FALSE, key)
    \/ Tick

SpecExpire == InitStore /\ [][NextExpire]_vars

NotifyKeys == {"a", "b", "c"}

\* a call of one of the operations that publish
NotifyCall ==
    \/ CallSet(FALSE, "a", Str(1), 0)
    \/ CallSetNX(FALSE, "a", Str(1), 0)
    \/ CallSetXX(FALSE, "a", Str(1), 0)
    \/ CallSetCAS(FALSE, "a", Str(1), Str(2), 0)
    \/ CallGetSet(FALSE, "a", Str(1), 0)
    \/ ~exists(data, "b") /\ CallLPush(FALSE, "b", <<1>>)
    \/ ~exists(data, "b") /\ CallRPush(FALSE, "b", <<1>>)
    \/ \E key \in NotifyKeys : CallDelete(FALSE, key)
    \/ \E oldKey \in {"a", "c"}, newKey \in {"a", "c"} : CallRename(FALSE, oldKey, newKey)

\* The bus after NewPubSub, Subscribe("a") and Subscribe("c"); the new store.
InitNotify ==
    /\ subscribers = MapPut(MapPut(<< >>, "a", {1}), "c", {2})
    /\ chanBuf = [s \in Sinks |-> << >>]
    /\ closes = [s \in Sinks |-> 0]
    /\ nextCh = 3
    /\ panicked = NoPanic
    /\ offered = [s \in Sinks |-> << >>]
    /\ consumed = [s \in Sinks |-> FALSE]
    /\ npub = 0
    /\ StoreStart

NextNotify ==
    \/ \E ch \in Sinks : Receive(ch)
    \/ NotifyCall

SpecNotify == InitNotify /\ [][NextNotify]_vars

\* the fixed tag of the operations that publish one message
Tag(op) ==
    CASE op \in {"Set", "SetNX", "SetXX"} -> "SET: "
      [] op = "SetCAS" -> "CAS: "
      [] op = "GetSet" -> "GETSET: "
      [] op = "LPush" -> "LPush: "
      [] op = "RPush" -> "RPush: "
      [] op = "Delete" -> "DELETE"
      [] OTHER -> "none"

\* Channel s after the messages pub, each on its topic, were offered to it:
\* a message of the topic s is registered under is queued when s has room.
Heard(s, pub) ==
    LET mine == SelectSeq(pub, LAMBDA x : x[1] \in DOMAIN subscribers
                                            /\ s \in subscribers[x[1]])
    IN  IF mine # << >> /\ Len(chanBuf[s]) < BufSize
        THEN Append(chanBuf[s], mine[1][2])
        ELSE chanBuf[s]

\* what a call that has just returned published: nothing with an error, one
\* message with the operation's tag on the key of a Set, SetNX, SetXX, SetCAS,
\* GetSet, LPush, RPush or Delete; and every channel got the message of its
\* topic when it had room, and nothing else
PublishedAsTagged ==
    /\ last'.err # ErrNone => (last'.pub = << >> /\ chanBuf' = chanBuf)
    /\ (last'.err = ErrNone /\ Tag(last'.op) # "none") =>
          /\ Len(last'.pub) = 1
          /\ last'.pub[1][1] = last'.key
          /\ last'.pub[1][2][1] = Tag(last'.op)
    /\ \A s \in Sinks : chanBuf'[s] = Heard(s, last'.pub)

\* C23 as stated: each successful Set, SetNX, SetXX, SetCAS, GetSet, LPush,
\* RPush or Delete publishes exactly one message with its operation's tag on
\* the topic of its key, every successful Rename publishes exactly RENAMED on
\* the old key and then CREATED (via rename) on the new key, and a call that
\* returns an error publishes nothing.
C23_EverySuccessPublishes ==
    [][\/ /\ PublishedAsTagged
          /\ (last'.err = ErrNone /\ last'.op = "Rename") =>
                last'.pub = << <<last'.key, <<"RENAMED">> >>,
                               <<last'.key2, <<"CREATED (via rename)">> >> >>
       \/ ~NotifyCall]_vars

\* C23, amended: as stated, but a successful Rename publishes RENAMED on the
\* old key and CREATED (via rename) on the new key only when the two keys
\* differ; Rename(k, k) succeeds and publishes nothing.
C23_SuccessPublishesUnlessNoOp ==
    [][\/ /\ PublishedAsTagged
          /\ (last'.err = ErrNone /\ last'.op = "Rename" /\ last'.key # last'.key2) =>
                last'.pub = << <<last'.key, <<"RENAMED">> >>,
                               <<last'.key2, <<"CREATED (via rename)">> >> >>
          /\ (last'.err = ErrNone /\ last'.op = "Rename" /\ last'.key = last'.key2) =>
                last'.pub = << >>
       \/ ~NotifyCall]_vars

\* a Rename has just moved a key, and the subscribers of the old and of the
\* new key each hold its message
C23_RenameHeardOnBothKeys ==
    /\ last.op = "Rename" /\ last.err = ErrNone /\ last.key # last.key2
    /\ \E s1 \in subscribers[last.key], s2 \in subscribers[last.key2] :
          /\ chanBuf[s1] = << <<"RENAMED">> >>
          /\ chanBuf[s2] = << <<"CREATED (via rename)">> >>

(***************************************************************************)
(* The order of the notifications of one key.  Goroutines call Set         *)
(* on OrderKey, in steps: the call to the Lock, the write of the map and   *)
(* Publish's read of the topic's channels, one non-blocking send per       *)
(* channel in the order range yields, the deferred Unlock.  The reaper     *)
(* sweeps the shards, time passes, and two subscribers of the key read     *)
(* their channels.                                                         *)
(***************************************************************************)
OrderKey == "a"

\* Set(OrderKey, p, TTL) by goroutine p, from the call to Publish's RUnlock:
\* sh.mu.Lock(), the write of the map, the read of the topic's channels.
\* The mutation is entered in the log (an observer).
OrderStore(p) ==
    /\ pc[p] = "idle"
    /\ npub < MaxPublish
    /\ CanLock(mu[ShardOf[OrderKey]])
    /\ mu' = [mu EXCEPT ![ShardOf[OrderKey]] = [w |-> p, r |-> {}]]
    /\ LET key == OrderKey
           r == Set(FALSE, data, now, key, I64(p), TTL)
       IN  /\ data' = r.d
           /\ loc' = [loc EXCEPT ![p] =
                 [op |-> "Set", key |-> key, pub |-> r.pub,
                  todo |-> IF key \in DOMAIN subscribers THEN subscribers[key] ELSE {}]]
           /\ pre' = [pre EXCEPT !.log = @ \o r.pub]
           /\ npub' = npub + Len(r.pub)
    /\ pc' = [pc EXCEPT ![p] = "send"]
    /\ UNCHANGED <<subscribers, chanBuf, closes, nextCh, panicked, offered, consumed>>
    /\ UNCHANGED <<now, hist, reaperVars, tx, last>>

\* select { case ch <- message: default: } on the next channel of the range
OrderSend(p, ch) ==
    /\ pc[p] = "send"
    /\ ch \in loc[p].todo
    /\ chanBuf' = [chanBuf EXCEPT ![ch] = TrySend(@, loc[p].pub[1][2])]
    /\ offered' = [offered EXCEPT ![ch] = Append(@, loc[p].pub[1][2])]
    /\ loc' = [loc EXCEPT ![p].todo = @ \ {ch}]
    /\ UNCHANGED <<subscribers, closes, nextCh, panicked, consumed, npub>>
    /\ UNCHANGED <<storeVars, pc, hist, reaperVars, txVars>>

\* the range is over: Publish returns, the deferred Unlock runs
OrderReturn(p) ==
    /\ pc[p] = "send"
    /\ loc[p].todo = {}
    /\ mu' = [mu EXCEPT ![ShardOf[loc[p].key]] = Unlocked]
    /\ pc' = [pc EXCEPT ![p] = "idle"]
    /\ loc' = [loc EXCEPT ![p] = NoLocals]
    /\ UNCHANGED <<busVars, data, now, hist, reaperVars, txVars>>

\* A subscriber reads one message from its channel and keeps it (an observer).
OrderReceive(ch) ==
    /\ ch < nextCh
    /\ chanBuf[ch] # << >>
    /\ chanBuf' = [chanBuf EXCEPT ![ch] = Tail(@)]
    /\ consumed' = [consumed EXCEPT ![ch] = TRUE]
    /\ pre' = [pre EXCEPT !.got[ch] = Append(@, Head(chanBuf[ch]))]
    /\ UNCHANGED <<subscribers, closes, nextCh, panicked, offered, npub>>
    /\ UNCHANGED <<storeVars, procVars, reaperVars, tx, last>>

\* Two subscribers of OrderKey; the shard of OrderKey holds enough keys for
\* the reaper to sample it; log: the messages of the mutations in the order
\* they took effect; got: what each subscriber has read.
InitOrder ==
    /\ subscribers = MapPut(<< >>, OrderKey, {1, 2})
    /\ chanBuf = [s \in Sinks |-> << >>]
    /\ closes = [s \in Sinks |-> 0]
    /\ nextCh = 3
    /\ panicked = NoPanic
    /\ offered = [s \in Sinks |-> << >>]
    /\ consumed = [s \in Sinks |-> FALSE]
    /\ npub = 0
    /\ data = [k \in Keys |-> IF k \in {"c", "e", "g"} THEN Entry(Str(1), String, 0)
                              ELSE NoEntry]
    /\ mu = [i \in ShardIds |-> Unlocked]
    /\ now = 1
    /\ pc = [p \in Procs |-> "idle"]
    /\ loc = [p \in Procs |-> NoLocals]
    /\ hist = [p \in Procs |-> << >>]
    /\ ReaperIdle
    /\ tx = NoTx
    /\ last = NoCall
    /\ pre = [log |-> << >>, got |-> [s \in Sinks |-> << >>]]

NextOrder ==
    \/ \E p \in Procs : OrderStore(p)
    \/ \E p \in Procs, ch \in Sinks : OrderSend(p, ch)
    \/ \E p \in Procs : OrderReturn(p)
    \/ \E ch \in Sinks : OrderReceive(ch)
    \/ Tick
    \/ ReaperTick
    \/ ReaperSize
    \/ ReaperSweepAny

SpecOrder == InitOrder /\ [][NextOrder]_vars

\* xs can be had from ys by leaving elements out
RECURSIVE IsSubSeq(_, _)
IsSubSeq(xs, ys) ==
    IF xs = << >> THEN TRUE
    ELSE IF ys = << >> THEN FALSE
    ELSE IF Head(xs) = Head(ys) THEN IsSubSeq(Tail(xs), Tail(ys))
    ELSE IsSubSeq(xs, Tail(ys))

\* the messages of the mutations of key, in the order they took effect
LogOf(key) ==
    LET mine == SelectSeq(pre.log, LAMBDA x : x[1] = key)
    IN  [i \in 1..Len(mine) |-> mine[i][2]]

\* what the subscriber of channel s has received or will receive next
Received(s) == pre.got[s] \o chanBuf[s]

\* C24: what a subscriber of a key receives is the messages of the key's
\* mutations in the order the mutations took effect under the shard lock,
\* with gaps where its channel was full and nothing out of order, whatever
\* the interleaving of the writers, the reaper and the readers; and two
\* channels of the key that never overflowed hold the same sequence: each
\* holds the log up to the send in progress, and all of it between calls.
C24_NotificationsInMutationOrder ==
    \A s \in subscribers[OrderKey] :
        /\ IsSubSeq(Received(s), offered[s])
        /\ offered[s] = SubSeq(LogOf(OrderKey), 1, Len(offered[s]))
        /\ Len(LogOf(OrderKey)) - Len(offered[s]) \in {0, 1}
        /\ (\A p \in Procs : pc[p] # "send") => offered[s] = LogOf(OrderKey)
        /\ Len(Received(s)) = Len(offered[s]) => Received(s) = offered[s]

\* two goroutines wrote the key one after the other and the reaper removed
\* it in between; one subscriber has read all three messages, the other
\* lost one to a full channel
C24_ThreeMutationsHeard ==
    \E s1, s2 \in subscribers[OrderKey] :
        /\ \E p, q \in Procs :
              /\ p # q
              /\ pre.got[s1] = << <<"SET: ", I64(p)>>, <<"EXPIRED">>, <<"SET: ", I64(q)>> >>
        /\ Len(Received(s2)) < Len(offered[s2])

(***************************************************************************)
(* The topic table under Subscribe, Unsubscribe, UnsubscribeAllForKey and  *)
(* Close, in any order and with any arguments, among calls of Publish.     *)
(***************************************************************************)
NextTable ==
    \/ \E key \in Topics : Subscribe(key)
    \/ \E key \in Topics, ch \in Sinks : Unsubscribe(key, ch)
    \/ \E key \in Topics : UnsubscribeAllForKey(key)
    \/ PubSubClose
    \/ \E key \in Topics : Publish(key, 0)

SpecTable == InitBus /\ [][NextTable]_vars

\* the channels registered under key: those Subscribe(key) returned that no
\* Unsubscribe(key, ch), UnsubscribeAllForKey(key) or Close() has taken out
SinksOf(key) == IF key \in DOMAIN subscribers THEN subscribers[key] ELSE {}

\* C25: the table never holds a topic with an empty set of sinks, and it
\* follows the calls exactly, so that a topic is in the table (and in what
\* ListSubscribers returns) if and only if a sink subscribed to it has not
\* been unsubscribed yet: Subscribe(k) adds its new sink to k's set;
\* Unsubscribe(k, ch) takes ch, and nothing else, out of k's set;
\* UnsubscribeAllForKey(k) empties k's set and no other; Close empties all.
C25_NoTopicWithoutSink ==
    /\ [](\A key \in DOMAIN subscribers : subscribers[key] # {})
    /\ [](\A key \in Topics : key \in ListSubscribers <=> SinksOf(key) # {})
    /\ [][/\ \A key \in Topics :
                Subscribe(key) =>
                   \A k \in Topics :
                      SinksOf(k)' = IF k = key THEN SinksOf(k) \cup {nextCh} ELSE SinksOf(k)
          /\ \A key \in Topics, ch \in Sinks :
                Unsubscribe(key, ch) =>
                   \A k \in Topics :
                      SinksOf(k)' = IF k = key THEN SinksOf(k) \ {ch} ELSE SinksOf(k)
          /\ \A key \in Topics :
                UnsubscribeAllForKey(key) =>
                   \A k \in Topics : SinksOf(k)' = IF k = key THEN {} ELSE SinksOf(k)
          /\ PubSubClose => \A k \in Topics : SinksOf(k)' = {}]_vars

\* the last sink of a topic has been unsubscribed and the topic has left the
\* table, where another topic stays with its sink
C25_TopicLeftWithLastSink ==
    /\ nextCh > MaxSinks
    /\ Cardinality(ListSubscribers) = 1
    /\ \E key \in ListSubscribers :
          /\ Cardinality(subscribers[key]) = 1
          /\ \A s \in subscribers[key] : closes[s] = 0
          /\ \A s \in Sinks \ subscribers[key] : closes[s] = 1
    /\ panicked = NoPanic

(***************************************************************************)
(* PubSub.Publish running concurrently with Subscribe and Unsubscribe.     *)
(* Publish is the read of ps.subscribers[key] under the shared lock, then, *)
(* with the lock released, a range over the map it read, a send per        *)
(* channel.  ps.subscribers[key] is a Go map, a reference: the map the     *)
(* range runs over is the one Subscribe and Unsubscribe write to, as long  *)
(* as the topic has not left the table.                                    *)
(***************************************************************************)
MapRace == "concurrent map iteration and map write"

\* RLock; subscribers, exists := ps.subscribers[key]; RUnlock.  seen: the
\* channels of the map at that instant; made: the channels made so far.
PublishRead(p, key) ==
    /\ panicked = NoPanic
    /\ pc[p] = "idle"
    /\ npub < MaxPublish
    /\ npub' = npub + 1
    /\ IF key \in DOMAIN subscribers
       THEN /\ pc' = [pc EXCEPT ![p] = "range"]
            /\ loc' = [loc EXCEPT ![p] = [op |-> "Publish", key |-> key,
                                          seen |-> subscribers[key], made |-> nextCh,
                                          visited |-> {}]]
       ELSE UNCHANGED <<pc, loc>>
    /\ UNCHANGED <<subscribers, chanBuf, closes, nextCh, panicked, offered, consumed>>
    /\ UNCHANGED <<storeVars, hist, reaperVars, txVars>>

\* The map Publish call p ranges over is still the one in the table: a
\* channel that was in it when p read it is still registered.
RangesOverTable(p) ==
    /\ pc[p] = "range"
    /\ \E ch \in SinksOf(loc[p].key) : ch < loc[p].made

\* the channels the range of call p may still yield, and those it must
Pending(p) ==
    ((IF RangesOverTable(p) THEN SinksOf(loc[p].key) ELSE {}) \cup loc[p].seen)
       \ loc[p].visited
Owed(p) ==
    (IF RangesOverTable(p) THEN SinksOf(loc[p].key) \cap loc[p].seen ELSE {})
       \ loc[p].visited

\* one iteration of the range: the non-blocking send on ch, which panics on
\* a closed channel
PublishSend(p, ch) ==
    /\ panicked = NoPanic
    /\ pc[p] = "range"
    /\ ch \in Pending(p)
    /\ IF closes[ch] > 0
       THEN /\ panicked' = SendOnClosed
            /\ UNCHANGED <<chanBuf, offered>>
       ELSE /\ chanBuf' = [chanBuf EXCEPT ![ch] = TrySend(@, 0)]
            /\ offered' = [offered EXCEPT ![ch] = Append(@, 0)]
            /\ UNCHANGED panicked
    /\ loc' = [loc EXCEPT ![p].visited = @ \cup {ch}]
    /\ UNCHANGED <<subscribers, closes, nextCh, consumed, npub>>
    /\ UNCHANGED <<storeVars, pc, hist, reaperVars, txVars>>

\* the range is over
PublishReturn(p) ==
    /\ panicked = NoPanic
    /\ pc[p] = "range"
    /\ Owed(p) = {}
    /\ pc' = [pc EXCEPT ![p] = "idle"]
    /\ loc' = [loc EXCEPT ![p] = NoLocals]
    /\ UNCHANGED <<busVars, storeVars, hist, reaperVars, txVars>>

\* the runtime finds the map written to while the range runs over it
PublishFault(p) ==
    /\ panicked = NoPanic
    /\ RangesOverTable(p)
    /\ SinksOf(loc[p].key) # loc[p].seen
    /\ panicked' = MapRace
    /\ UNCHANGED <<subscribers, chanBuf, closes, nextCh, offered, consumed, npub>>
    /\ UNCHANGED notBus

NextRange ==
    \/ \E p \in Procs, key \in Topics : PublishRead(p, key)
    \/ \E p \in Procs, ch \in Sinks : PublishSend(p, ch)
    \/ \E p \in Procs : PublishReturn(p)
    \/ \E p \in Procs : PublishFault(p)
    \/ \E key \in Topics : Subscribe(key)
    \/ \E key \in Topics, ch \in Sinks : Unsubscribe(key, ch)

SpecRange == InitBus /\ [][NextRange]_vars

\* C26: once Publish has released the lock it works on a snapshot: no
\* Subscribe and no Unsubscribe writes to the sink set a Publish call is
\* ranging over (Subscribe(key) inserts into the set of a topic that is in
\* the table, Unsubscribe(key, ch) deletes ch from the set it is in).
C26_PublishRangesOverSnapshot ==
    [][\A p \in Procs :
          RangesOverTable(p) =>
             /\ ~(loc[p].key \in DOMAIN subscribers /\ Subscribe(loc[p].key))
             /\ \A ch \in SinksOf(loc[p].key) : ~Unsubscribe(loc[p].key, ch)]_vars

(***************************************************************************)
(* What the error of a failed Commit can be asked (SpecTxCond).            *)
(***************************************************************************)
\* errors.Is(err, target).  An error of this program is a sentinel, or one
\* fmt.Errorf around the sentinel given to its %w verb, and the model names
\* an error by that sentinel: errors.Is follows %w and nothing else.  What
\* Commit formats with %v is text of the message (pre.cause), not a link of
\* the chain.
Is(err, target) == err = target

\* C27: the error of a Commit that failed because a recorded SetCAS did not
\* match answers yes both to "is it TransactionFailed?" and to "is it
\* ValueMismatch?".
C27_CommitErrorKeepsCause ==
    (last.op = "Commit" /\ last.err # ErrNone /\ pre.cause = ErrValueMismatch) =>
        /\ Is(last.err, ErrTransactionFailed)
        /\ Is(last.err, ErrValueMismatch)


\* C28: Delete(k) on a key that is absent, or whose entry has expired and is
\* still in the shard's map, returns KeyNotFound and publishes nothing; it
\* succeeds and publishes DELETE only when it removes a present, unexpired
\* entry.
C28_DeleteOnExpiredIsKeyNotFound ==
    [][\A k \in ExpireKeys :
          CallDelete(FALSE, k) =>
             IF data[k] = NoEntry \/ Lapsed(data[k], now)
             THEN /\ last'.err = ErrKeyNotFound
                  /\ last'.pub = << >>
             ELSE /\ last'.err = ErrNone
                  /\ last'.pub = << <<k, <<"DELETE">> >> >>
                  /\ data'[k] = NoEntry]_vars


(***************************************************************************)
(* The command loop of Commit (SpecTxCond).                                *)
(***************************************************************************)
\* The maps and the messages after the first n commands of cs have been
\* called one after the other on the maps d, and the error of the n-th.
RECURSIVE StepsOf(_, _, _, _)
StepsOf(cs, n, d, t) ==
    IF n = 0 THEN [d |-> d, pub |-> << >>, err |-> ErrNone]
    ELSE LET p == StepsOf(cs, n - 1, d, t)
             r == ExecCmd(cs[n], p.d, t)
         IN  [d |-> r.d, pub |-> p.pub \o r.pub, err |-> r.err]

\* C29: Commit calls the recorded commands one at a time in recording order
\* and stops at the first that returns an error: what the store and the bus
\* have seen is that prefix and the rollback, nothing of a later command; a
\* Commit that succeeds has called every command exactly once.
C29_CommitStopsAtFirstError ==
    [][(tx.active /\ TxCommit) =>
          LET cs == tx.commands
              n == pre'.applied
          IN  /\ n \in 0..Len(cs)
              /\ \A i \in 1..n : StepsOf(cs, i, data, now).err = ErrNone
              /\ IF last'.err = ErrNone
                 THEN /\ n = Len(cs)
                      /\ data' = StepsOf(cs, n, data, now).d
                      /\ last'.pub = StepsOf(cs, n, data, now).pub
                 ELSE /\ n < Len(cs)
                      /\ LET f == StepsOf(cs, n + 1, data, now)
                             back == rollbackCommands(tx.rollback, f.d, now, f.pub)
                         IN  /\ f.err # ErrNone
                             /\ pre'.cause = f.err
                             /\ data' = back.d
                             /\ last'.pub = back.pub]_vars

\* Commit has failed at a command that was not the last one recorded
C29_CommandAfterFailureSkipped ==
    /\ last.op = "Commit" /\ last.err = ErrTransactionFailed
    /\ pre.applied + 1 < pre.recorded


(***************************************************************************)
(* What the compensations restore: a transaction that records Set, Incr    *)
(* and Rename over two keys while another client writes and the clock      *)
(* runs.                                                                   *)
(***************************************************************************)
NextUndo ==
    \/ TxSet("a", Str(2), 0)
    \/ TxIncr("a")
    \/ TxRename("a", "b")
    \/ TxCommit
    \/ TxRollback
    \/ \E key \in TxKeys : DBSet(key, Str(3))
    \/ Tick

SpecUndo == InitTx /\ [][NextUndo]_vars

\* the keys the closures recorded have a snapshot of
SnapKeys(rollback) ==
    UNION {{rollback[i][j].key : j \in 1..Len(rollback[i])} : i \in 1..Len(rollback)}

\* C30: the snapshot a recording method takes of each key it names is the
\* entry the key has at that moment (none for an absent or expired key), and
\* the compensations run last recorded first: right after a rollback, by
\* Rollback or by a failed Commit, every key the transaction named, both keys
\* of a Rename included, holds the entry it held when the transaction first
\* recorded an operation on it, and no other key has changed.
C30_RollbackRestoresFirstSnapshot ==
    /\ [][(Len(tx'.commands) = Len(tx.commands) + 1) =>
             LET snaps == tx'.rollback[Len(tx'.rollback)]
             IN  \A j \in 1..Len(snaps) :
                    /\ snaps[j].entry = Visible(data, now)[snaps[j].key]
                    /\ snaps[j].existed = (Visible(data, now)[snaps[j].key] # NoEntry)]_vars
    /\ [][(tx.active /\ (TxRollback \/ (TxCommit /\ last'.err # ErrNone))) =>
             \A k \in Keys :
                data'[k] = IF k \in SnapKeys(tx.rollback)
                           THEN FirstSnap(tx.rollback, k) ELSE data[k]]_vars

\* Rollback has undone a Rename and another operation on its old key
C30_RenameAndSecondOperationUndone ==
    /\ last.op = "Rollback"
    /\ pre.outcome = "rolled back"
    /\ pre.recorded = 2
    /\ "b" \in pre.named

(***************************************************************************)
(* Transactions over a hash and a list: the recording methods of the       *)
(* containers, a SetNX that fails at Commit, no other client.              *)
(***************************************************************************)
TxHSet(key, field, value, ttl) ==
    /\ tx.made
    /\ Record(Cmd("HSet", key, field, I64(value), ttl), <<key>>)

TxHDel(key, field) ==
    /\ tx.made
    /\ Record(Cmd("HDel", key, field, Nil, 0), <<key>>)

TxRPush(key, values) ==
    /\ tx.made
    /\ Record(Cmd("RPush", key, "", ListOf(values), 0), <<key>>)

\* Transaction.LPop: the command and its compensation are recorded first; the
\* answer is the head of the list in the snapshot just taken.
TxLPop(key) ==
    /\ tx.made
    /\ LET snap == getRawEntryOrNil(data, now, key)
       IN  IF ~tx.active
           THEN /\ last' = Call("LPop", key, Nil, ErrTransactionNotActive)
                /\ UNCHANGED <<tx, pre>>
           ELSE IF snap.err # ErrNone
           THEN /\ last' = Call("LPop", key, Nil, snap.err)
                /\ UNCHANGED <<tx, pre>>
           ELSE /\ Len(tx.commands) < MaxCmds
                /\ tx' = [tx EXCEPT !.commands = Append(@, Cmd("LPop", key, "", Nil, 0)),
                                    !.rollback = Append(@, <<snap>>)]
                /\ pre' = [pre EXCEPT !.first = IF pre.named = {} THEN data ELSE @,
                                      !.named = @ \cup {key}]
                /\ last' = IF ~snap.existed THEN Call("LPop", key, Nil, ErrKeyNotFound)
                           ELSE IF snap.entry.Value.t # "list" \/ snap.entry.Value.xs = << >>
                           THEN Call("LPop", key, Nil, ErrEmptyList)
                           ELSE Call("LPop", key, I64(Head(snap.entry.Value.xs)), ErrNone)
    /\ UNCHANGED <<busVars, storeVars, procVars, reaperVars>>

\* a string or nothing under a, a hash under b, a list under c
InitSnap ==
    /\ NewPubSub
    /\ \E ea \in {NoEntry, Entry(Str(1), String, 0)},
          h \in {{<<"f", 1>>}, {<<"f", 1>>, <<"h", 1>>}},
          xs \in {<<1>>, <<1, 2>>} :
          data = [k \in Keys |-> IF k = "a" THEN ea
                                 ELSE IF k = "b" THEN Entry(HashOf(h), Hash, 0)
                                 ELSE IF k = "c" THEN Entry(ListOf(xs), List, 0)
                                 ELSE NoEntry]
    /\ mu = [i \in ShardIds |-> Unlocked]
    /\ now = 1
    /\ pc = [p \in Procs |-> "idle"]
    /\ loc = [p \in Procs |-> NoLocals]
    /\ hist = [p \in Procs |-> << >>]
    /\ ReaperIdle
    /\ tx = [made |-> TRUE, active |-> TRUE, commands |-> << >>, rollback |-> << >>]
    /\ last = NoCall
    /\ pre = Observed(data)

NextSnap ==
    \/ TxHSet("b", "h", 2, 0)
    \/ TxHDel("b", "f")
    \/ TxRPush("c", <<3>>)
    \/ TxLPop("c")
    \/ TxSetNX("a", Str(2), 0)
    \/ TxCommit
    \/ TxRollback

SpecSnap == InitSnap /\ [][NextSnap]_vars

MaxList == 4

PushKey == "b"
PushArgs == {<<1>>, <<2>>, <<1, 2>>, <<1, 2, 3>>}

\* the elements of the live list under key, none when the key is absent or
\* its entry has expired
LiveList(d, t, key) ==
    IF exists(d, key) /\ ~isExpired(d[key], t) THEN d[key].Value.xs ELSE << >>

NextPush ==
    \/ \E values \in PushArgs :
          /\ Len(LiveList(data, now, PushKey)) + Len(values) <= MaxList
          /\ \/ CallLPush(FALSE, PushKey, values)
             \/ CallRPush(FALSE, PushKey, values)
    \/ CallLPop(FALSE, PushKey)
    \/ CallRPop(FALSE, PushKey)
    \/ CallExpire(FALSE, PushKey, TTL)
    \/ Tick

SpecPush == InitStore /\ [][NextPush]_vars

\* C32: LPush puts its values at the head with the last argument first, RPush
\* appends them in argument order; so on any existing list LPush(k, x) then
\* LPop(k) returns x, RPush(k, x) then RPop(k) returns x, and the list is
\* then what it was before the push (the list not having expired in between).
C32_PushThenPopIsIdentity ==
    /\ [][\A values \in PushArgs :
             LET old == LiveList(data, now, PushKey)
                 new == data'[PushKey].Value.xs
                 n == Len(values)
             IN  /\ CallLPush(FALSE, PushKey, values) =>
                       /\ Len(new) = n + Len(old)
                       /\ \A i \in 1..n : new[i] = values[n + 1 - i]
                       /\ \A i \in 1..Len(old) : new[n + i] = old[i]
                 /\ CallRPush(FALSE, PushKey, values) => new = old \o values]_vars
    /\ [](LiveList(data, now, PushKey) # << >> =>
             \A x \in 1..3 :
                LET l1 == LPush(FALSE, data, now, PushKey, <<x>>)
                    l2 == LPop(FALSE, l1.d, now, PushKey)
                    r1 == RPush(FALSE, data, now, PushKey, <<x>>)
                    r2 == RPop(FALSE, r1.d, now, PushKey)
                IN  /\ l1.err = ErrNone /\ l2.err = ErrNone
                    /\ l2.ret = I64(x) /\ l2.d = data
                    /\ r1.err = ErrNone /\ r2.err = ErrNone
                    /\ r2.ret = I64(x) /\ r2.d = data)
    /\ [][\A x \in 1..3 :
             (/\ last.op \in {"LPush", "RPush"} /\ last.err = ErrNone
              /\ last.pub[1][2][2] = ListOf(<<x>>)
              /\ LiveList(data, now, PushKey) # << >>
              /\ IF last.op = "LPush" THEN CallLPop(FALSE, PushKey)
                                      ELSE CallRPop(FALSE, PushKey))
                => last'.ret = I64(x) /\ last'.err = ErrNone]_vars

\* LPop has returned 3 and left [2, 1]: the list was [3, 2, 1]
C32_PoppedWhatWasPushedLast ==
    /\ last.op = "LPop" /\ last.ret = I64(3) /\ last.err = ErrNone
    /\ LiveList(data, now, PushKey) = <<2, 1>>


(***************************************************************************)
(* The expiration of a hash under HSet: field f is set with a TTL or       *)
(* without, field g always without, while the clock runs.                  *)
(***************************************************************************)
HashKey == "a"

\* db.HSet(HashKey, field, value, ttl); the call's record names the field
HashCall(field, value, ttl) ==
    /\ CanLock(mu[ShardOf[HashKey]])
    /\ StoreCall("HSet", HashKey, field, HSet(FALSE, data, now, HashKey, field, value, ttl))

NextHash ==
    \/ \E value \in 1..2, ttl \in {0, TTL, TTL + 1} : HashCall("f", value, ttl)
    \/ \E value \in 1..2 : HashCall("g", value, 0)
    \/ \E field \in HashFields : CallHDel(FALSE, HashKey, field)
    \/ Tick

SpecHash == InitStore /\ [][NextHash]_vars

\* C33: HSet with ttl = 0 on a hash that is there and has not expired leaves
\* its expiration as it was, and with ttl > 0 sets it to now + ttl; the call
\* that creates the hash gives it the expiration of its ttl.  So the
\* expiration of a hash is the one of the last HSet with ttl > 0, or of the
\* creating call, and no HSet with ttl = 0 takes an expiration away.
C33_HSetKeepsExpirationOnZeroTTL ==
    [][\A field \in HashFields, value \in 1..2, ttl \in {0, TTL, TTL + 1} :
          HashCall(field, value, ttl) =>
             LET e == data[HashKey]
             IN  /\ last'.err = ErrNone
                 /\ data'[HashKey].Type = Hash
                 /\ data'[HashKey].Expiration =
                       IF e # NoEntry /\ ~Lapsed(e, now) /\ ttl = 0 THEN e.Expiration
                       ELSE IF ttl = 0 THEN 0
                       ELSE now + ttl
                 /\ (e # NoEntry /\ ~Lapsed(e, now) /\ e.Expiration # 0)
                       => data'[HashKey].Expiration # 0]_vars

\* HSet of g, always called with ttl = 0, has just left a hash that keeps
\* the expiration an earlier HSet gave it
C33_ZeroTTLKeptExpiration ==
    /\ last.op = "HSet" /\ last.key2 = "g" /\ last.err = ErrNone
    /\ data[HashKey].Type = Hash
    /\ data[HashKey].Expiration # 0
    /\ ~Lapsed(data[HashKey], now)


(***************************************************************************)
(* The reaper beside a writer: a client keeps calling Set on key a, with   *)
(* and without a TTL, while the reaper passes over the shards; one sink is *)
(* subscribed to a and nobody reads it.                                    *)
(***************************************************************************)
SweepKey == "a"

InitSweep ==
    /\ Subscribed(SweepKey)
    /\ \E timed \in SUBSET {"a", "c", "e", "g"} :
          data = [k \in Keys |->
                IF k \in timed THEN Entry(Str(1), String, ttlSecondsToTime(1, TTL))
                ELSE IF k \in {"a", "c", "e", "g"} THEN Entry(Str(1), String, 0)
                ELSE NoEntry]
    /\ mu = [i \in ShardIds |-> Unlocked]
    /\ now = 1
    /\ pc = [p \in Procs |-> "idle"]
    /\ loc = [p \in Procs |-> NoLocals]
    /\ hist = [p \in Procs |-> << >>]
    /\ ReaperIdle
    /\ TxIdle

NextSweep ==
    \/ \E ttl \in {0, TTL} : CallSet(FALSE, SweepKey, Str(2), ttl)
    \/ Tick
    \/ ReaperTick
    \/ ReaperSize
    \/ ReaperSweepAny

SpecSweep == InitSweep /\ [][NextSweep]_vars

\* the sinks registered under key
SinksUnder(key) == IF key \in DOMAIN subscribers THEN subscribers[key] ELSE {}

\* C34: the reaper removes an entry only if the entry is expired when it is
\* removed, whatever a writer did to the key between the reaper's read of the
\* shard's size and its exclusive lock; each removal offers exactly one
\* EXPIRED to the sinks of the key's topic and nothing to the others; and a
\* sweep that has the lock free can complete whether or not the sinks are
\* full.
C34_ReaperRemovesOnlyExpired ==
    /\ [][ReaperSweepAny =>
             \A k \in Keys :
                LET removed == exists(data, k) /\ ~exists(data', k)
                IN  /\ removed => isExpired(data[k], now)
                    /\ ~removed => data'[k] = data[k]
                    /\ \A s \in SinksUnder(k) :
                          offered'[s] = IF removed THEN Append(offered[s], <<"EXPIRED">>)
                                        ELSE offered[s]]_vars
    /\ []((reaper.pc = "sweep" /\ CanLock(mu[reaper.shard])) => ENABLED ReaperSweepAny)

\* the reaper has removed key a and offered EXPIRED to a sink that was full
C34_RemovedWhileSinkFull ==
    /\ ~exists(data, SweepKey)
    /\ \A s \in SinksUnder(SweepKey) :
          /\ Len(chanBuf[s]) = BufSize
          /\ \A i \in 1..Len(chanBuf[s]) : chanBuf[s][i] # <<"EXPIRED">>
          /\ offered[s] = << <<"EXPIRED">> >>


(***************************************************************************)
(* Close and the reaper: the store is closed at some moment of the         *)
(* reaper's run; the ticker goes on firing until the goroutine returns.    *)
(***************************************************************************)
\* A reaper that stays in its loop when cleanupCtx is cancelled.
ReaperIgnoresCancel ==
    /\ reaper.pc = "wait"
    /\ reaper.done
    /\ UNCHANGED vars

\* case <-db.cleanupCtx.Done(): the goroutine returns.
ReaperStop ==
    /\ reaper.pc = "wait"
    /\ reaper.done
    /\ reaper' = [reaper EXCEPT !.pc = "stopped"]
    /\ UNCHANGED <<busVars, storeVars, procVars, txVars>>

\* DB.Close: cleanupCancel(), then the bus is closed.
DBClose ==
    /\ ~reaper.done
    /\ panicked = NoPanic
    /\ reaper' = [reaper EXCEPT !.done = TRUE]
    /\ subscribers' = << >>
    /\ CloseAll(UNION {subscribers[k] : k \in DOMAIN subscribers})
    /\ UNCHANGED <<chanBuf, nextCh, offered, consumed, npub>>
    /\ UNCHANGED <<storeVars, procVars, txVars>>

NextClose ==
    \/ DBClose
    \/ Tick
    \/ ReaperTick
    \/ ReaperSize
    \/ ReaperSweepAny
    \/ ReaperStop

SpecClose == InitSweep /\ [][NextClose]_vars

\* The goroutine keeps running, and a select with several ready cases picks
\* one at random: the ready Done case is not passed over for ever.
LiveClose ==
    /\ SpecClose
    /\ WF_vars(ReaperSize)
    /\ WF_vars(ReaperSweepAny)
    /\ SF_vars(ReaperStop)

\* C35: after Close the reaper task terminates sooner or later, whichever of
\* a pending tick and the cancellation its select takes first; once it has,
\* it runs no sweep, removes no entry and publishes no EXPIRED.
C35_ReaperStopsAfterClose ==
    /\ reaper.done ~> (reaper.pc = "stopped")
    /\ [][reaper.pc = "stopped" =>
             /\ reaper' = reaper
             /\ data' = data
             /\ offered' = offered]_vars

\* the reaper has returned after Close and left an expired entry in a shard
C35_StoppedWithExpiredEntryLeft ==
    /\ reaper.done /\ reaper.pc = "stopped"
    /\ \E k \in Keys : exists(data, k) /\ isExpired(data[k], now)


(***************************************************************************)
(* DB.SetNX called concurrently on one absent key: one call per goroutine; *)
(* a call is its argument checks, the lock acquisition, the read of the    *)
(* map, and the rest with the deferred Unlock.                             *)
(***************************************************************************)
NxKey == "a"

\* setInternal up to sh.mu.Lock().  seen is what the map held under the key
\* when the call was made (an observer).
NxCall(p, value, ttl) ==
    /\ pc[p] = "idle"
    /\ hist[p] = << >>
    /\ UNCHANGED <<reaperVars, txVars>>
    /\ pc' = [pc EXCEPT ![p] = "lock"]
    /\ loc' = [loc EXCEPT ![p] = [op |-> "SetNX", key |-> NxKey, newValue |-> value,
                                  ttl |-> ttl, entry |-> NoEntry, seen |-> data[NxKey]]]
    /\ UNCHANGED <<busVars, storeVars, hist>>

\* the rest of setInternal on what the read found: the NX gate, the store of
\* the entry, the notification, and the deferred Unlock
NxWrite(p) ==
    /\ pc[p] = "write"
    /\ UNCHANGED <<reaperVars, txVars>>
    /\ LET key == loc[p].key
           r == SetNX(FALSE, [data EXCEPT ![key] = loc[p].entry], now, key,
                      loc[p].newValue, loc[p].ttl)
       IN  /\ data' = [data EXCEPT ![key] = IF r.err = ErrNone THEN r.d[key] ELSE @]
           /\ chanBuf' = DeliverAll(chanBuf, r.pub)
           /\ hist' = [hist EXCEPT ![p] =
                 Append(@, [ret |-> r.ret, err |-> r.err, newValue |-> loc[p].newValue,
                            seen |-> loc[p].seen])]
    /\ mu' = [mu EXCEPT ![ShardOf[loc[p].key]] = Unlocked]
    /\ pc' = [pc EXCEPT ![p] = "idle"]
    /\ loc' = [loc EXCEPT ![p] = NoLocals]
    /\ UNCHANGED <<subscribers, closes, nextCh, panicked, offered, consumed, npub, now>>

NextNx ==
    \/ \E p \in Procs, n \in 1..2, ttl \in {0, TTL} : NxCall(p, I64(n), ttl)
    \/ \E p \in Procs : CasLock(p)
    \/ \E p \in Procs : CasRead(p)
    \/ \E p \in Procs : NxWrite(p)
    \/ Tick

SpecNx == InitStore /\ [][NextNx]_vars

\* the goroutines whose SetNX has returned, and those it answered true
NxDone == {p \in Procs : hist[p] # << >>}
NxWon == {p \in NxDone : hist[p][1].ret = Bool(TRUE)}

\* C36: of the concurrent SetNX calls on one absent key exactly one returns
\* true, every other one returns (false, KeyExists), and the key holds the
\* value of the call that returned true.
C36_OneSetNXWins ==
    NxDone # {} =>
        /\ Cardinality(NxWon) = 1
        /\ \A p \in NxWon :
              /\ hist[p][1].err = ErrNone
              /\ exists(data, NxKey) /\ data[NxKey].Value = hist[p][1].newValue
        /\ \A p \in NxDone \ NxWon :
              hist[p][1].ret = Bool(FALSE) /\ hist[p][1].err = ErrKeyExists

\* two calls with different values were both made while the key was absent;
\* one has returned true and the other (false, KeyExists)
C36_TwoCallsRaced ==
    \E p, q \in NxDone :
        /\ p # q
        /\ hist[p][1].seen = NoEntry /\ hist[q][1].seen = NoEntry
        /\ hist[p][1].newValue # hist[q][1].newValue
        /\ hist[p][1].ret = Bool(TRUE) /\ hist[q][1].err = ErrKeyExists


(***************************************************************************)
(* Publish beside the calls that close channels: goroutines publish while  *)
(* clients subscribe, unsubscribe, drop a topic or close the bus.          *)
(***************************************************************************)
NextShut ==
    \/ \E p \in Procs, key \in Topics : PublishRead(p, key)
    \/ \E p \in Procs, ch \in Sinks : PublishSend(p, ch)
    \/ \E p \in Procs : PublishReturn(p)
    \/ \E p \in Procs : PublishFault(p)
    \/ \E key \in Topics : Subscribe(key)
    \/ \E key \in Topics, ch \in Sinks : Unsubscribe(key, ch)
    \/ \E key \in Topics : UnsubscribeAllForKey(key)
    \/ PubSubClose

SpecShut == InitBus /\ [][NextShut]_vars

\* C37: Publish never attempts a send on a channel that has been closed,
\* however its range interleaves with an Unsubscribe, an UnsubscribeAllForKey
\* or a Close that closes a channel of the topic.
C37_NoSendOnClosedSink ==
    [][\A p \in Procs, ch \in Sinks : PublishSend(p, ch) => closes[ch] = 0]_vars


(***************************************************************************)
(* Rollback of a transaction none of whose commands has run.               *)
(***************************************************************************)
\* the entries the transaction's first snapshots hold, key by key
FirstSnaps(rollback) == [x \in Keys |-> FirstSnap(rollback, x)]

LazyKey == "a"

\* A lazy delete that does not look at the map again.
lazyDeleteUnchecked(d, t, key) == [d EXCEPT ![key] = NoEntry]

\* if latestEntry, ok := sh.data[key]; ok && isExpired(latestEntry) { delete }
lazyDelete(d, t, key) ==
    IF exists(d, key) /\ isExpired(d[key], t) THEN [d EXCEPT ![key] = NoEntry] ELSE d

\* sh.mu.RLock(); entry, exists := sh.data[key]; sh.mu.RUnlock()
GetRead(p) ==
    /\ pc[p] = "idle"
    /\ hist[p] = << >>
    /\ mu[ShardOf[LazyKey]].w = 0
    /\ pc' = [pc EXCEPT ![p] = "test"]
    /\ loc' = [loc EXCEPT ![p] = [op |-> "Get", key |-> LazyKey, entry |-> data[LazyKey]]]
    /\ UNCHANGED <<busVars, storeVars, hist, reaperVars, txVars>>

\* if !exists { return ErrKeyNotFound }; if isExpired(entry) { ... };
\* return entry.Value, nil
GetTest(p) ==
    /\ pc[p] = "test"
    /\ LET entry == loc[p].entry
       IN  IF entry = NoEntry
           THEN /\ hist' = [hist EXCEPT ![p] =
                      Append(@, [ret |-> Nil, err |-> ErrKeyNotFound, entry |-> entry,
                                 latest |-> NoEntry, fresh |-> FALSE])]
                /\ pc' = [pc EXCEPT ![p] = "idle"]
                /\ loc' = [loc EXCEPT ![p] = NoLocals]
           ELSE IF isExpired(entry, now)
           THEN /\ pc' = [pc EXCEPT ![p] = "lock"]
                /\ UNCHANGED <<loc, hist>>
           ELSE /\ hist' = [hist EXCEPT ![p] =
                      Append(@, [ret |-> entry.Value, err |-> ErrNone, entry |-> entry,
                                 latest |-> NoEntry, fresh |-> FALSE])]
                /\ pc' = [pc EXCEPT ![p] = "idle"]
                /\ loc' = [loc EXCEPT ![p] = NoLocals]
    /\ UNCHANGED <<busVars, storeVars, reaperVars, txVars>>

\* the lazy delete under the exclusive lock, the Unlock, return ErrKeyExpired.
\* The history keeps the entry the call had read, the entry it found under
\* the exclusive lock and whether that one was unexpired.
GetRemove(p) ==
    /\ pc[p] = "read"
    /\ loc[p].op = "Get"
    /\ data' = lazyDelete(data, now, loc[p].key)
    /\ hist' = [hist EXCEPT ![p] =
          Append(@, [ret |-> Nil, err |-> ErrKeyExpired, entry |-> loc[p].entry,
                     latest |-> data[loc[p].key],
                     fresh |-> exists(data, loc[p].key)
                                 /\ ~isExpired(data[loc[p].key], now)])]
    /\ mu' = [mu EXCEPT ![ShardOf[loc[p].key]] = Unlocked]
    /\ pc' = [pc EXCEPT ![p] = "idle"]
    /\ loc' = [loc EXCEPT ![p] = NoLocals]
    /\ UNCHANGED <<busVars, now, reaperVars, txVars>>

NextLazy ==
    \/ \E p \in Procs : GetRead(p)
    \/ \E p \in Procs : GetTest(p)
    \/ \E p \in Procs : CasLock(p)
    \/ \E p \in Procs : GetRemove(p)
    \/ \E n \in 1..2, ttl \in {0, TTL} : CallSet(FALSE, LazyKey, Str(n), ttl)
    \/ Tick

SpecLazy == InitStore /\ [][NextLazy]_vars

\* C39: Get's lazy removal never deletes a live entry.  When Get has read an
\* expired entry under the shared lock and another client has stored a fresh,
\* unexpired value under the key before Get holds the exclusive lock, Get
\* leaves the fresh entry in the map and a Get right after returns the fresh
\* value; no step of Get changes what any key reads as.
C39_LazyRemovalSparesFreshEntry ==
    /\ [][\A p \in Procs :
            (GetRemove(p) /\ exists(data, LazyKey) /\ ~isExpired(data[LazyKey], now))
            => /\ data'[LazyKey] = data[LazyKey]
               /\ Get(FALSE, data', now', LazyKey).err = ErrNone
               /\ Get(FALSE, data', now', LazyKey).ret = data[LazyKey].Value]_vars
    /\ [][\A p \in Procs :
            (GetRead(p) \/ GetTest(p) \/ GetRemove(p) \/ (CasLock(p) /\ loc[p].op = "Get"))
            => Visible(data', now') = Visible(data, now)]_vars

\* a Get that had read an expired entry found a fresh one under the exclusive
\* lock, returned ErrKeyExpired, and the fresh entry is in the map
C39_FreshEntryStoredBetweenLocks ==
    \E p \in Procs : \E i \in 1..Len(hist[p]) :
        /\ hist[p][i].err = ErrKeyExpired
        /\ hist[p][i].fresh
        /\ hist[p][i].latest # hist[p][i].entry
        /\ data[LazyKey] = hist[p][i].latest


(***************************************************************************)
(* What a recorded LPop answers, against what Commit removes.              *)
(***************************************************************************)
PopKey == "c"

\* the transaction has recorded nothing but LPop so far
OnlyPopsRecorded == \A i \in 1..Len(tx.commands) : tx.commands[i].op = "LPop"

\* the list as it is after its first n elements are popped
AfterPops(xs, n) == SubSeq(xs, n + 1, Len(xs))

\* C40: a pop recorded in a transaction returns the element Commit will
\* remove.  With no other writer, the n-th LPop a transaction records on a
\* list returns the n-th element of the list (the first and the second for
\* two recorded LPops), and after a successful Commit exactly the elements
\* returned are gone.
C40_RecordedPopReturnsElementRemoved ==
    /\ [][(TxLPop(PopKey) /\ tx.active /\ OnlyPopsRecorded
             /\ Len(tx.commands) < Len(LiveList(data, now, PopKey)))
          => /\ last'.err = ErrNone
             /\ last'.ret = I64(LiveList(data, now, PopKey)[Len(tx.commands) + 1])]_vars
    /\ [][(TxCommit /\ tx.active /\ OnlyPopsRecorded /\ last'.err = ErrNone)
          => LiveList(data', now', PopKey)
                = AfterPops(LiveList(data, now, PopKey), Len(tx.commands))]_vars

=============================================================================
